---- MODULE Spec2Model ----
(***************************************************************************)
(* Model of gollm's provider orchestration service (pkg/llm), its query    *)
(* history store (pkg/logger) and the CLI flow that drives them            *)
(* (cmd/gollm/commands).                                                   *)
(*                                                                         *)
(* Conventions                                                             *)
(*   - temperatures are kept in tenths (0.7 is 7, 0.8 is 8, 0.0 is 0);     *)
(*   - durations are kept in nanoseconds as time.Duration does, and        *)
(*     Milliseconds truncates as Duration.Milliseconds does;               *)
(*   - an error value is the string naming its message, NoErr is nil;      *)
(*   - a Go map is a TLA+ function whose DOMAIN is the map's key set.      *)
(***************************************************************************)
EXTENDS Integers, Sequences, FiniteSets, TLC

(***************************************************************************)
(* Bounds of the exploration.                                              *)
(***************************************************************************)
MaxCalls == 2

(***************************************************************************)
(* Input universes.                                                        *)
(***************************************************************************)
Prompts == {"hello", "Test prompt"}

Durations == {2500000}

NoErr == "nil"

ErrUnknownModel == "unknown model"

ErrProviderNotConfigured == "provider not configured"

ErrNoModels == "no models available for provider"

ErrModelRequired == "model is required"

ErrGoogleClient == "google client not initialized"

ErrSending == "error sending request"

ErrCanceled == "error sending request: context canceled"

ErrReading == "error reading response"

ErrAPIType == "API error (type)"

ErrAPIStatus == "API error (status)"

ErrParsing == "error parsing response"

ErrEmpty == "empty response"

ErrGenerating == "error generating content"

ErrUnexpectedType == "unexpected response type"

ErrLogQuery == "failed to log query"

ErrNoText == "no text content in response"

(***************************************************************************)
(* Model registry (models.go).                                             *)
(***************************************************************************)
ProviderNames == {"anthropic", "deepseek", "google"}

RealTable ==
    [p \in ProviderNames |->
        CASE p = "anthropic" -> <<"claude-3-7-sonnet-latest">>
          [] p = "deepseek"  -> <<"deepseek-coder", "deepseek-chat">>
          [] p = "google"    -> <<"gemini-2.5-pro-exp-03-25", "gemini-2.0-flash",
                                  "gemini-2.0-flash-lite", "gemini-1.5-flash",
                                  "gemini-1.5-flash-8b">>]

TestTable ==
    [p \in {"anthropic", "deepseek"} |->
        IF p = "anthropic" THEN <<"claude-3-7-sonnet-latest">>
                           ELSE <<"deepseek-chat", "deepseek-coder">>]

RegistryTables == {RealTable, TestTable}

Range(s) == {s[i] : i \in 1..Len(s)}

(* m[k] = v on a Go map.                                                   *)
MapSet(m, k, v) == [x \in DOMAIN m \cup {k} |-> IF x = k THEN v ELSE m[x]]

EmptyIndex == [m \in {} |-> ""]

(* The orders in which range may visit the keys of a map.                  *)
ProviderOrders(table) ==
    {o \in [1..Cardinality(DOMAIN table) -> DOMAIN table] :
        \A i, j \in DOMAIN o : o[i] = o[j] => i = j}

(* The inner loop stopping one model short.                                *)
IndexProvider_SkipsLast(index, provider, models) ==
    LET listed == {models[i] : i \in 1..(Len(models) - 1)}
    IN  [m \in DOMAIN index \cup listed |->
            IF m \in listed THEN provider ELSE index[m]]

(* init's inner loop: ModelToProvider[model] = provider for each model.    *)
RECURSIVE IndexProvider(_, _, _)
IndexProvider(index, provider, models) ==
    IF models = <<>>
    THEN index
    ELSE IndexProvider(MapSet(index, Head(models), provider), provider, Tail(models))

(* init's outer loop over the providers in the order range visits them.    *)
RECURSIVE InitIndex(_, _, _)
InitIndex(table, order, index) ==
    IF order = <<>>
    THEN index
    ELSE InitIndex(table, Tail(order),
                   IndexProvider(index, Head(order), table[Head(order)]))

BuildModelToProvider(table) ==
    InitIndex(table, CHOOSE o \in ProviderOrders(table) : TRUE, EmptyIndex)

IsValidProvider(table, provider) == provider \in DOMAIN table

GetModelsForProvider(table, provider) ==
    IF provider \in DOMAIN table THEN table[provider] ELSE <<>>

GetProviderForModel(index, model) ==
    IF model \in DOMAIN index THEN index[model] ELSE ""

IsValidModel(index, model) == model \in DOMAIN index

(* The default taken from the end of the list.                             *)
GetDefaultModelForProvider_LastModel(table, providerName) ==
    LET models == GetModelsForProvider(table, providerName)
    IN  IF Len(models) = 0
        THEN [model |-> "", err |-> ErrNoModels]
        ELSE [model |-> models[Len(models)], err |-> NoErr]

(* service.go:125-133.                                                     *)
GetDefaultModelForProvider(table, providerName) ==
    LET models == GetModelsForProvider(table, providerName)
    IN  IF Len(models) = 0
        THEN [model |-> "", err |-> ErrNoModels]
        ELSE [model |-> models[1], err |-> NoErr]

(***************************************************************************)
(* Request options (provider.go).  An Option is the closure returned by    *)
(* one of the With... constructors, kept as the data it closes over.       *)
(***************************************************************************)
NoParams == [k \in {} |-> [type |-> "string", str |-> "", num |-> 0]]

RequestOptions(model, maxTokens, temperature, customParams) ==
    [Model |-> model, MaxTokens |-> maxTokens, Temperature |-> temperature,
     CustomParams |-> customParams]

ZeroRequestOptions == RequestOptions("", 0, 0, NoParams)

WithModel(model) ==
    [kind |-> "WithModel", str |-> model, num |-> 0, key |-> "", type |-> ""]

WithMaxTokens(maxTokens) ==
    [kind |-> "WithMaxTokens", str |-> "", num |-> maxTokens, key |-> "", type |-> ""]

WithTemperature(temperature) ==
    [kind |-> "WithTemperature", str |-> "", num |-> temperature, key |-> "", type |-> ""]

WithCustomParam(key, type, str, num) ==
    [kind |-> "WithCustomParam", str |-> str, num |-> num, key |-> key, type |-> type]

(* A nil Option: a func value that cannot be called.                       *)
NilOption ==
    [kind |-> "nil", str |-> "", num |-> 0, key |-> "", type |-> ""]

(* Calling opt(o).  A nil Option has no arm here: calling it is the        *)
(* panic the callers below account for before they apply anything.         *)
ApplyOption(opt, o) ==
    CASE opt.kind = "WithModel"       -> [o EXCEPT !.Model = opt.str]
      [] opt.kind = "WithMaxTokens"   -> [o EXCEPT !.MaxTokens = opt.num]
      [] opt.kind = "WithTemperature" -> [o EXCEPT !.Temperature = opt.num]
      [] opt.kind = "WithCustomParam" ->
            [o EXCEPT !.CustomParams =
                [k \in DOMAIN o.CustomParams \cup {opt.key} |->
                    IF k = opt.key
                    THEN [type |-> opt.type, str |-> opt.str, num |-> opt.num]
                    ELSE o.CustomParams[k]]]

(* The options applied from the last to the first: the first one wins.     *)
RECURSIVE ApplyOptions_FirstWins(_, _)
ApplyOptions_FirstWins(o, options) ==
    IF options = <<>> THEN o
    ELSE ApplyOption(Head(options), ApplyOptions_FirstWins(o, Tail(options)))

(* for _, option := range options { option(opts) } (part_004:78-80,        *)
(* anthropic.go:72-74, google.go:49-51).                                   *)
RECURSIVE ApplyOptions(_, _)
ApplyOptions(o, options) ==
    IF options = <<>> THEN o
    ELSE ApplyOptions(ApplyOption(Head(options), o), Tail(options))

OptionSeqs ==
    { <<>>,
      <<WithTemperature(8)>>,
      <<WithTemperature(0)>>,
      <<WithMaxTokens(1000), WithTemperature(7), WithCustomParam("system", "string", "be brief", 0)>>,
      <<WithModel("deepseek-chat")>>,
      <<NilOption, WithTemperature(8)>> }

(***************************************************************************)
(* Provider adapters (deepseek.go, anthropic.go, google.go).               *)
(* AdapterPrepare is Query up to the outbound call: it composes the        *)
(* options over the adapter's defaults and builds the request, or fails    *)
(* before any network traffic.  An Exchange is what the network hands      *)
(* back; DecodeExchange is the rest of Query.                              *)
(***************************************************************************)
DefaultMaxTokens == 1000

GoogleDefaultMaxTokens == 1024

DefaultTemperature == 7

AdapterDefaults(p) ==
    IF p = "google"
    THEN RequestOptions("", GoogleDefaultMaxTokens, DefaultTemperature, NoParams)
    ELSE RequestOptions("", DefaultMaxTokens, DefaultTemperature, NoParams)

SystemParam(opts) ==
    IF "system" \in DOMAIN opts.CustomParams
       /\ opts.CustomParams["system"].type = "string"
       /\ opts.CustomParams["system"].str # ""
    THEN opts.CustomParams["system"].str
    ELSE ""

(* opts.CustomParams[key].(T): the number under key when it has type T,   *)
(* else the zero value.                                                    *)
NumberParam(opts, key, type) ==
    IF key \in DOMAIN opts.CustomParams /\ opts.CustomParams[key].type = type
    THEN opts.CustomParams[key].num
    ELSE 0

(* The request with the system message placed after the user message.      *)
BuildRequest_SystemAfterUser(p, prompt, opts) ==
    LET system == SystemParam(opts)
        user   == [Role |-> "user", Content |-> prompt]
    IN  [Model       |-> opts.Model,
         MaxTokens   |-> opts.MaxTokens,
         Temperature |-> opts.Temperature,
         Messages    |-> IF p = "deepseek" /\ system # ""
                         THEN <<user, [Role |-> "system", Content |-> system]>>
                         ELSE <<user>>,
         System      |-> IF p = "deepseek" THEN "" ELSE system,
         TopP        |-> NumberParam(opts, "top_p", "float64"),
         TopK        |-> IF p = "google" THEN NumberParam(opts, "top_k", "int") ELSE 0]

(* The request an adapter builds from the composed options (part_004:88-   *)
(* 104, anthropic.go:82-97, google.go:59-84): Deepseek takes the system    *)
(* prompt as a leading system-role message, the others as a field.         *)
BuildRequest(p, prompt, opts) ==
    LET system == SystemParam(opts)
        user   == [Role |-> "user", Content |-> prompt]
    IN  [Model       |-> opts.Model,
         MaxTokens   |-> opts.MaxTokens,
         Temperature |-> opts.Temperature,
         Messages    |-> IF p = "deepseek" /\ system # ""
                         THEN <<[Role |-> "system", Content |-> system], user>>
                         ELSE <<user>>,
         System      |-> IF p = "deepseek" THEN "" ELSE system,
         TopP        |-> NumberParam(opts, "top_p", "float64"),
         TopK        |-> IF p = "google" THEN NumberParam(opts, "top_k", "int") ELSE 0]

NoRequest == BuildRequest("none", "", ZeroRequestOptions)

(* The call of a nil Option inside an adapter's option loop: a nil         *)
(* pointer dereference that nothing recovers.                              *)
PanicNilOption == "panic: invalid memory address or nil pointer dereference"

HasNilOption(options) == \E i \in 1..Len(options) : options[i] = NilOption

(* Query building and sending the request whatever the model is.           *)
AdapterPrepare_NoModelCheck(p, client, prompt, options) ==
    IF p = "google" /\ client = "nil"
    THEN [err |-> ErrGoogleClient, sent |-> FALSE, req |-> NoRequest,
          opts |-> ZeroRequestOptions]
    ELSE IF HasNilOption(options)
    THEN [err |-> PanicNilOption, sent |-> FALSE, req |-> NoRequest,
          opts |-> ZeroRequestOptions]
    ELSE LET opts == ApplyOptions(AdapterDefaults(p), options)
         IN  [err |-> NoErr, sent |-> TRUE, req |-> BuildRequest(p, prompt, opts),
              opts |-> opts]

(* Query up to the outbound call (part_004:71-121, anthropic.go:65-115,    *)
(* google.go:37-85).                                                       *)
AdapterPrepare(p, client, prompt, options) ==
    IF p = "google" /\ client = "nil"
    THEN [err |-> ErrGoogleClient, sent |-> FALSE, req |-> NoRequest,
          opts |-> ZeroRequestOptions]
    ELSE IF HasNilOption(options)
    THEN [err |-> PanicNilOption, sent |-> FALSE, req |-> NoRequest,
          opts |-> ZeroRequestOptions]
    ELSE LET opts == ApplyOptions(AdapterDefaults(p), options)
         IN  IF opts.Model = ""
             THEN [err |-> ErrModelRequired, sent |-> FALSE, req |-> NoRequest,
                   opts |-> opts]
             ELSE [err |-> NoErr, sent |-> TRUE, req |-> BuildRequest(p, prompt, opts),
                   opts |-> opts]

StatusOK == 200

StatusCodes == {200, 500}

Bodies == {"content", "noContent", "apiError", "garbage"}

Exchange(transport, status, body, text) ==
    [transport |-> transport, status |-> status, body |-> body, text |-> text]

(* The text each backend answers with (the canned texts of the mock        *)
(* servers of service_test.go).                                            *)
ResponseText(p) ==
    CASE p = "anthropic" -> "Mock Anthropic response"
      [] p = "deepseek"  -> "Mock Deepseek response"
      [] OTHER           -> "Mock Google response"

(* What an HTTP backend can hand back.  Only Anthropic's content has       *)
(* typed blocks, so only there can a decoded body hold content without     *)
(* any text block.                                                         *)
HTTPExchanges(p) ==
    {Exchange("sendErr", 0, "garbage", ""), Exchange("readErr", 200, "garbage", "")}
    \cup {Exchange("ok", st, b, "") : st \in StatusCodes, b \in Bodies \ {"content"}}
    \cup {Exchange("ok", st, "content", ResponseText(p)) : st \in StatusCodes}
    \cup (IF p = "anthropic"
          THEN {Exchange("ok", st, "nonText", "") : st \in StatusCodes}
          ELSE {})

GoogleExchanges ==
    {Exchange("sendErr", 0, "garbage", ""),
     Exchange("ok", 200, "noContent", ""),
     Exchange("ok", 200, "nonText", ""),
     Exchange("ok", 200, "content", ResponseText("google"))}

ExchangesFor(p) == IF p = "google" THEN GoogleExchanges ELSE HTTPExchanges(p)

(* No exchange took place: the call ended before or without an answer.     *)
NoExchange == Exchange("none", 0, "garbage", "")

Result(response, err) == [response |-> response, err |-> err]

(* The body decoded before the status is looked at.                       *)
DecodeHTTP_ParseFirst(x) ==
    IF x.transport = "sendErr" THEN Result("", ErrSending)
    ELSE IF x.transport = "readErr" THEN Result("", ErrReading)
    ELSE IF x.body = "garbage" THEN Result("", ErrParsing)
    ELSE IF x.status # StatusOK
         THEN IF x.body = "apiError" THEN Result("", ErrAPIType)
                                     ELSE Result("", ErrAPIStatus)
    ELSE IF x.body = "nonText" THEN Result("", ErrNoText)
    ELSE IF x.body # "content" THEN Result("", ErrEmpty)
    ELSE Result(x.text, NoErr)

(* part_004:128-166 and anthropic.go:122-166: transport, body read,        *)
(* status, decoding, emptiness, and for Anthropic the search for a text    *)
(* block.                                                                  *)
DecodeHTTP(x) ==
    IF x.transport = "sendErr" THEN Result("", ErrSending)
    ELSE IF x.transport = "readErr" THEN Result("", ErrReading)
    ELSE IF x.status # StatusOK
         THEN IF x.body = "apiError" THEN Result("", ErrAPIType)
                                     ELSE Result("", ErrAPIStatus)
    ELSE IF x.body = "garbage" THEN Result("", ErrParsing)
    ELSE IF x.body = "nonText" THEN Result("", ErrNoText)
    ELSE IF x.body # "content" THEN Result("", ErrEmpty)
    ELSE Result(x.text, NoErr)

DecodeGoogle(x) ==
    IF x.transport # "ok" THEN Result("", ErrGenerating)
    ELSE IF x.body = "noContent" THEN Result("", ErrEmpty)
    ELSE IF x.body = "nonText" THEN Result("", ErrUnexpectedType)
    ELSE Result(x.text, NoErr)

DecodeExchange(p, x) == IF p = "google" THEN DecodeGoogle(x) ELSE DecodeHTTP(x)

ErrGenCanceled == "error generating content: context canceled"

CanceledErr(p) == IF p = "google" THEN ErrGenCanceled ELSE ErrCanceled

IsCanceled(err) == err \in {ErrCanceled, ErrGenCanceled}

(* An adapter whose request does not carry the context                     *)
(* (http.NewRequest): cancellation never ends the call.                    *)
AdapterResults_IgnoresContext(p, prep, cancelled) ==
    IF prep.err = PanicNilOption THEN {}
    ELSE IF ~prep.sent THEN {Result("", prep.err)}
    ELSE {DecodeExchange(p, x) : x \in ExchangesFor(p)}

(* The results provider.Query can return for a prepared call: the failure  *)
(* found before sending, else the context's error once the context is      *)
(* cancelled (http.NewRequestWithContext / GenerateContent(ctx, ...)),     *)
(* else the decoding of whatever exchange the backend completes.  A call   *)
(* that panics returns nothing.                                            *)
AdapterResults(p, prep, cancelled) ==
    IF prep.err = PanicNilOption THEN {}
    ELSE IF ~prep.sent THEN {Result("", prep.err)}
    ELSE IF cancelled THEN {Result("", CanceledErr(p))}
    ELSE {DecodeExchange(p, x) : x \in ExchangesFor(p)}

(***************************************************************************)
(* State.                                                                  *)
(***************************************************************************)
VARIABLES
    SupportedProviders, \* models.go: provider -> ordered model list
    ModelToProvider,    \* models.go: model -> provider, built by init()
    cfgKeys,            \* config.GetAPIKey per provider ("" when absent)
    providers,          \* Service.providers: the set of registered adapters
    googleClient,       \* GoogleProvider.client: "nil" or "open"
    logger,             \* Service.logger: "nil" or "set"
    dbOpen,             \* Logger.db is open (NewLogger succeeded, Close not yet called)
    records,            \* rows of table queries, in insertion order
    nextId,             \* source of fresh uuid values
    stderr,             \* calls for which "Failed to log query" was printed
    calls,              \* number of top-level calls begun
    successes,          \* number of QueryWithTiming calls whose adapter returned no error
    ctxCancelled,       \* the current call's context is cancelled or past its deadline
    qwt,                \* the QueryWithTiming call in progress
    logTasks,           \* goroutines of service.go:107 not yet run
    logAttempts,        \* call -> number of LogQuery invocations made for it
    qa,                 \* the QueryAll call in progress (writes: inserts made, per key)
    tasks,              \* QueryAll's goroutines, by provider
    results,            \* QueryAll's results map
    resultsMutex,       \* "free" or the provider whose task holds it
    wg,                 \* QueryAll's WaitGroup counter
    cli,                \* queryLLM's position and outcome
    reg,                \* the registry: built or not, and the last lookup made
    ns,                 \* NewService called directly: its position and argument
    clock,              \* time.Now(), in ticks
    rd,                 \* the last direct call of a Logger method and its results
    ad                  \* an adapter's Query called directly: its frame

vars == <<SupportedProviders, ModelToProvider, cfgKeys, providers,
          googleClient, logger, dbOpen, records, nextId, stderr, calls,
          successes, ctxCancelled, qwt, logTasks, logAttempts, qa, tasks,
          results, resultsMutex, wg, cli, reg, ns, clock, rd, ad>>

(* What the query paths read and never write.                              *)
staticVars == <<SupportedProviders, ModelToProvider, reg, ns, clock, rd, ad>>

serviceVars == <<providers, googleClient, logger>>

storeVars == <<dbOpen, records, nextId, stderr, logAttempts>>

fanoutVars == <<qa, tasks, results, resultsMutex, wg>>

(***************************************************************************)
(* Service construction (service.go:30-60).                                *)
(***************************************************************************)
KeyConfigs ==
    { [p \in ProviderNames |-> IF p = "google" THEN "" ELSE "key"],
      [p \in ProviderNames |-> IF p = "deepseek" THEN "" ELSE "key"] }

(* An adapter for every provider that has an entry, empty or not.          *)
NewService_AnyEntry(apiKeys) ==
    {p \in {"anthropic", "deepseek", "google"} : p \in DOMAIN apiKeys}

(* service.go:31-55: the providers map NewService builds.                  *)
NewService(apiKeys) ==
    {p \in {"anthropic", "deepseek", "google"} :
        p \in DOMAIN apiKeys /\ apiKeys[p] # ""}

(* NewGoogleProvider keeps a nil client when genai.NewClient fails.        *)
GoogleClients(registered) ==
    IF "google" \in registered THEN {"nil", "open"} ELSE {"nil"}

EmptyMap == [p \in {} |-> 0]

NoPrep == [err |-> NoErr, sent |-> FALSE, req |-> NoRequest, opts |-> ZeroRequestOptions]

Return(response, elapsed, err) ==
    [response |-> response, elapsed |-> elapsed, err |-> err]

IdleQwt ==
    [pc |-> "idle", call |-> 0, prompt |-> "", modelName |-> "", provider |-> "",
     options |-> <<>>, temperature |-> 0, prep |-> NoPrep, adapterCalled |-> FALSE,
     out |-> Result("", NoErr), response |-> "", err |-> NoErr, elapsedTime |-> 0,
     ret |-> Return("", 0, NoErr)]

IdleQa ==
    [pc |-> "idle", call |-> 0, prompt |-> "", options |-> <<>>, launched |-> {},
     providerName |-> "", writes |-> EmptyMap]

ProviderResponse(response, model, provider, err, elapsedTime) ==
    [Response |-> response, Model |-> model, Provider |-> provider,
     Error |-> err, ElapsedTime |-> elapsedTime]

IdleTask ==
    [pc |-> "none", defaultModel |-> "", prep |-> NoPrep, called |-> FALSE,
     response |-> "", err |-> NoErr, elapsedTime |-> 0]

(* No adapter is being called on its own.                                  *)
IdleAd ==
    [pc |-> "idle", provider |-> "", options |-> <<>>, prep |-> NoPrep,
     exchange |-> NoExchange, out |-> Result("", NoErr)]

(* NewService is not being called on its own.                              *)
IdleNs == [pc |-> "none", apiKeys |-> [p \in {} |-> ""]]

(* No Logger method has been called directly.                              *)
NoRead ==
    [op |-> "none", limit |-> 0, text |-> "", logged |-> <<>>, queries |-> <<>>,
     err |-> NoErr, fault |-> "none", total |-> 0, before |-> 0]

(* The registry after package initialisation, no lookup made yet.          *)
ReadyReg ==
    [pc |-> "ready", op |-> "none", arg |-> "", str |-> "", list |-> <<>>,
     ok |-> FALSE, err |-> NoErr]

(* queryLLM is not running: the package is used as a library.             *)
IdleCli ==
    [pc |-> "none", all |-> FALSE, err |-> NoErr, prompt |-> "",
     modelFlag |-> "", options |-> <<>>]

(* The state of a program that has built a Service with NewService over   *)
(* its keys, attached a logger or not, and holds the rows recs and the     *)
(* pending logging goroutines pend of the single-model queries it has      *)
(* already made.                                                           *)
Constructed(recs, pend) ==
    /\ SupportedProviders \in RegistryTables
    /\ ModelToProvider = BuildModelToProvider(RealTable)
    /\ reg = ReadyReg
    /\ ns = IdleNs
    /\ clock = 0
    /\ rd = NoRead
    /\ ad = IdleAd
    /\ cfgKeys \in KeyConfigs
    /\ providers = NewService(cfgKeys)
    /\ googleClient \in GoogleClients(providers)
    /\ logger \in {"nil", "set"}
    /\ dbOpen = (logger = "set")
    /\ records = recs
    /\ nextId = Len(recs) + 1
    /\ stderr = {}
    /\ calls = 0
    /\ successes = Len(recs) + Cardinality(pend)
    /\ ctxCancelled = FALSE
    /\ qwt = IdleQwt
    /\ logTasks = pend
    /\ logAttempts = EmptyMap
    /\ qa = IdleQa
    /\ tasks = [p \in ProviderNames |-> IdleTask]
    /\ results = EmptyMap
    /\ resultsMutex = "free"
    /\ wg = 0
    /\ cli = IdleCli

Init == Constructed(<<>>, {})

(***************************************************************************)
(* Service.QueryWithTiming (service.go:63-116).                            *)
(***************************************************************************)
ModelNames ==
    {"claude-3-7-sonnet-latest", "deepseek-chat", "gemini-2.0-flash", "unknown-model"}

(* Lines 64-76 with the model check dropped: an unknown model resolves to  *)
(* the provider "" and is reported as that provider not being configured.  *)
RouteModel_NoModelCheck(index, registered, modelName) ==
    LET providerName == GetProviderForModel(index, modelName)
    IN  IF providerName \notin registered
        THEN [err |-> ErrProviderNotConfigured, provider |-> providerName]
        ELSE [err |-> NoErr, provider |-> providerName]

(* Lines 64-76: the model is validated, then its provider's adapter is     *)
(* looked up.                                                              *)
RouteModel(index, registered, modelName) ==
    IF ~IsValidModel(index, modelName)
    THEN [err |-> ErrUnknownModel, provider |-> ""]
    ELSE LET providerName == GetProviderForModel(index, modelName)
         IN  IF providerName \notin registered
             THEN [err |-> ErrProviderNotConfigured, provider |-> providerName]
             ELSE [err |-> NoErr, provider |-> providerName]

LogDefaultTemperature == 7

(* Lines 82-92: the temperature kept for the log.                          *)
RECURSIVE ExtractTemperature(_, _)
ExtractTemperature(temperature, options) ==
    IF options = <<>> THEN temperature
    ELSE IF Head(options) = NilOption
    THEN ExtractTemperature(temperature, Tail(options))
    ELSE LET reqOpts == ApplyOption(Head(options), ZeroRequestOptions)
         IN  ExtractTemperature(
                IF reqOpts.Temperature # 0 THEN reqOpts.Temperature ELSE temperature,
                Tail(options))

CallerIdle ==
    /\ qwt.pc \in {"idle", "returned"}
    /\ qa.pc \in {"idle", "returned"}

(* Lines 63-98: validation, option injection, temperature extraction and   *)
(* the entry into provider.Query; a failed validation returns at once.     *)
QueryWithTimingBegin(prompt, modelName, options) ==
    LET route == RouteModel(ModelToProvider, providers, modelName)
        opts  == <<WithModel(modelName)>> \o options
        frame == [IdleQwt EXCEPT !.call = calls + 1, !.prompt = prompt,
                                 !.modelName = modelName, !.provider = route.provider,
                                 !.options = options]
    IN  /\ calls' = calls + 1
        /\ ctxCancelled' = FALSE
        /\ IF route.err # NoErr
           THEN qwt' = [frame EXCEPT !.pc = "returned", !.err = route.err,
                                     !.ret = Return("", 0, route.err)]
           ELSE qwt' = [frame EXCEPT !.pc = "calling",
                            !.temperature = ExtractTemperature(LogDefaultTemperature, opts),
                            !.prep = AdapterPrepare(route.provider, googleClient, prompt, opts),
                            !.adapterCalled = TRUE]

Milliseconds(d) == d \div 1000000

(* The clock's resolution: ticks of time.Now() per second.                 *)
TicksPerSecond == 2

(* time.Now().Format(time.RFC3339) (logger.go:72): the text names the      *)
(* second, what is below the second is dropped.                            *)
FormatRFC3339(t) == t \div TicksPerSecond

(* time.Parse(time.RFC3339, timestamp) (logger.go:112): the instant the    *)
(* text names, in ticks.                                                   *)
ParseRFC3339(x) == x * TicksPerSecond

(* The values the goroutine of lines 107-112 closes over.                  *)
LogTask(q) ==
    [call |-> q.call, prompt |-> q.prompt, model |-> q.modelName,
     response |-> q.response, duration |-> q.elapsedTime,
     temperature |-> q.temperature]

(* Line 104 without the err == nil test: failed queries are logged too.    *)
ShouldLog_AnyOutcome(err, lg) == lg # "nil"

(* Line 104: only successful queries are logged, and only with a logger.   *)
ShouldLog(err, lg) == err = NoErr /\ lg # "nil"

(* Lines 98-113: provider.Query returns, the elapsed time is taken and the *)
(* logging goroutine is started.                                           *)
QueryWithTimingAdapterReturn ==
    /\ qwt.pc = "calling"
    /\ \E r \in AdapterResults(qwt.provider, qwt.prep, ctxCancelled), d \in Durations :
          LET q == [qwt EXCEPT !.pc = "returning", !.out = r, !.response = r.response,
                               !.err = r.err, !.elapsedTime = d]
          IN  /\ qwt' = q
              /\ successes' = IF r.err = NoErr THEN successes + 1 ELSE successes
              /\ logTasks' = IF ShouldLog(r.err, logger)
                             THEN logTasks \cup {LogTask(q)}
                             ELSE logTasks
    /\ UNCHANGED <<staticVars, cfgKeys, serviceVars, storeVars, calls,
                   ctxCancelled, fanoutVars, cli>>

(* Line 98 when provider.Query panics: QueryWithTiming has no recover, the *)
(* panic unwinds the goroutine and ends the process, pending logging       *)
(* goroutines included.                                                    *)
QueryWithTimingPanic ==
    /\ qwt.pc = "calling"
    /\ qwt.prep.err = PanicNilOption
    /\ qwt' = [qwt EXCEPT !.pc = "panicked"]
    /\ logTasks' = {}
    /\ UNCHANGED <<staticVars, cfgKeys, serviceVars, storeVars, calls,
                   successes, ctxCancelled, fanoutVars, cli>>

(* Line 115: return response, elapsedTime, err.                            *)
QueryWithTimingReturn ==
    /\ qwt.pc = "returning"
    /\ qwt' = [qwt EXCEPT !.pc = "returned",
                          !.ret = Return(qwt.response, qwt.elapsedTime, qwt.err)]
    /\ UNCHANGED <<staticVars, cfgKeys, serviceVars, storeVars, calls,
                   successes, ctxCancelled, logTasks, fanoutVars, cli>>

(***************************************************************************)
(* Logger (logger.go) and the goroutine of service.go:107-112.             *)
(***************************************************************************)
(* The row with the duration stored as it came (no .Milliseconds()).       *)
Query_RawDuration(id, t) ==
    [ID |-> id, Timestamp |-> FormatRFC3339(clock), Prompt |-> t.prompt,
     Model |-> t.model, Response |-> t.response,
     Duration |-> t.duration, Temperature |-> t.temperature, call |-> t.call]

(* The row written under an id that is not freshly generated.              *)
Query_FixedId(id, t) ==
    [ID |-> 1, Timestamp |-> FormatRFC3339(clock), Prompt |-> t.prompt,
     Model |-> t.model, Response |-> t.response,
     Duration |-> Milliseconds(t.duration), Temperature |-> t.temperature,
     call |-> t.call]

(* The row LogQuery inserts (logger.go:70-73); call is bookkeeping of the  *)
(* model: the QueryWithTiming call the row was written for.                *)
Query(id, t) ==
    [ID |-> id, Timestamp |-> FormatRFC3339(clock), Prompt |-> t.prompt,
     Model |-> t.model, Response |-> t.response,
     Duration |-> Milliseconds(t.duration), Temperature |-> t.temperature,
     call |-> t.call]

Bump(f, k) ==
    [x \in DOMAIN f \cup {k} |->
        IF x = k THEN (IF k \in DOMAIN f THEN f[k] + 1 ELSE 1) ELSE f[x]]

(* What LogQuery can return: its INSERT fails on a closed database and may *)
(* fail on an open one (db.Exec reporting a locked or full database).      *)
LogQueryOutcomes(open) == IF open THEN {NoErr, ErrLogQuery} ELSE {ErrLogQuery}

(* The goroutine assigning LogQuery's error to the err of the enclosing    *)
(* call (err = ... instead of logErr := ...).                              *)
LogQueryStep_SharedErr(t, logErr) ==
    /\ logTasks' = logTasks \ {t}
    /\ logAttempts' = Bump(logAttempts, t.call)
    /\ IF logErr = NoErr
       THEN /\ records' = Append(records, Query(nextId, t))
            /\ nextId' = nextId + 1
            /\ UNCHANGED <<stderr, qwt>>
       ELSE /\ stderr' = stderr \cup {t.call}
            /\ qwt' = IF qwt.call = t.call THEN [qwt EXCEPT !.err = logErr] ELSE qwt
            /\ UNCHANGED <<records, nextId>>

(* service.go:107-112 running Logger.LogQuery (logger.go:65-80) once: the  *)
(* row is inserted, or the failure is printed to stderr and dropped.       *)
LogQueryStep(t, logErr) ==
    /\ logTasks' = logTasks \ {t}
    /\ logAttempts' = Bump(logAttempts, t.call)
    /\ IF logErr = NoErr
       THEN /\ records' = Append(records, Query(nextId, t))
            /\ nextId' = nextId + 1
            /\ UNCHANGED <<stderr, qwt>>
       ELSE /\ stderr' = stderr \cup {t.call}
            /\ UNCHANGED <<records, nextId, qwt>>

LogQueryRun ==
    /\ \E t \in logTasks, logErr \in LogQueryOutcomes(dbOpen) : LogQueryStep(t, logErr)
    /\ UNCHANGED <<staticVars, cfgKeys, serviceVars, dbOpen, calls,
                   successes, ctxCancelled, fanoutVars, cli>>

(* Logger.Close (logger.go:57-62), called by the owner of the logger       *)
(* between calls (the deferred Close of service_logger_test.go:112).       *)
LoggerClose ==
    /\ cli.pc = "none"
    /\ CallerIdle
    /\ dbOpen
    /\ dbOpen' = FALSE
    /\ UNCHANGED <<staticVars, cfgKeys, serviceVars, records, nextId,
                   stderr, logAttempts, calls, successes, ctxCancelled, qwt,
                   logTasks, fanoutVars, cli>>

(* The caller of the package issues a single-model query.                  *)
LibQueryWithTimingOn(prompts, modelNames, optionSeqs) ==
    /\ cli.pc = "none"
    /\ CallerIdle
    /\ calls < MaxCalls
    /\ \E prompt \in prompts, modelName \in modelNames, options \in optionSeqs :
          QueryWithTimingBegin(prompt, modelName, options)
    /\ UNCHANGED <<staticVars, cfgKeys, serviceVars, storeVars,
                   successes, logTasks, fanoutVars, cli>>

LibQueryWithTiming == LibQueryWithTimingOn(Prompts, ModelNames, OptionSeqs)

(* The context handed to the call is cancelled (the caller's cancel, or    *)
(* the deadline of context.WithTimeout, root.go:34).                       *)
CancelCtx ==
    /\ ~ctxCancelled
    /\ qwt.pc = "calling" \/ qa.pc = "launching" \/ ad.pc = "calling"
    /\ ctxCancelled' = TRUE
    /\ UNCHANGED <<staticVars, cfgKeys, serviceVars, storeVars, calls,
                   successes, qwt, logTasks, fanoutVars, cli>>

NextService ==
    \/ LibQueryWithTiming
    \/ QueryWithTimingAdapterReturn
    \/ QueryWithTimingPanic
    \/ QueryWithTimingReturn
    \/ LogQueryRun
    \/ LoggerClose
    \/ CancelCtx

SpecService == Init /\ [][NextService]_vars

(***************************************************************************)
(* Service.QueryAll (service.go:136-193).                                  *)
(***************************************************************************)
(* Lines 137-141: the results map, its mutex and the wait group.           *)
QueryAllBegin(prompt, options) ==
    /\ calls' = calls + 1
    /\ ctxCancelled' = FALSE
    /\ qa' = [IdleQa EXCEPT !.pc = "launching", !.call = calls + 1,
                            !.prompt = prompt, !.options = options]
    /\ tasks' = [p \in ProviderNames |-> IdleTask]
    /\ results' = EmptyMap
    /\ resultsMutex' = "free"
    /\ wg' = 0

(* Lines 144-147: one iteration of the range loop: wg.Add(1); go func(...) *)
(* with the loop variables passed as arguments.                            *)
QueryAllLaunch(p) ==
    /\ qa.pc = "launching"
    /\ p \in providers \ qa.launched
    /\ wg' = wg + 1
    /\ qa' = [qa EXCEPT !.launched = @ \cup {p}, !.providerName = p]
    /\ tasks' = [tasks EXCEPT ![p].pc = "start"]
    /\ UNCHANGED <<staticVars, cfgKeys, serviceVars, storeVars, calls,
                   successes, ctxCancelled, qwt, logTasks, results, resultsMutex, cli>>

(* The task returning on a failed lookup without storing an entry.         *)
TaskStart_DropsLookupFailure(p) ==
    /\ tasks[p].pc = "start"
    /\ LET d == GetDefaultModelForProvider(SupportedProviders, p)
       IN  IF d.err # NoErr
           THEN tasks' = [tasks EXCEPT ![p].pc = "unlocked", ![p].err = d.err]
           ELSE tasks' = [tasks EXCEPT ![p].pc = "calling", ![p].called = TRUE,
                              ![p].defaultModel = d.model,
                              ![p].prep = AdapterPrepare(p, googleClient, qa.prompt,
                                              <<WithModel(d.model)>> \o qa.options)]
    /\ UNCHANGED <<staticVars, cfgKeys, serviceVars, storeVars, calls,
                   successes, ctxCancelled, qwt, logTasks, qa, results,
                   resultsMutex, wg, cli>>

(* The task calling the adapter although the lookup failed, with the       *)
(* empty model the lookup returned.                                        *)
TaskStart_CallsAnyway(p) ==
    /\ tasks[p].pc = "start"
    /\ LET d == GetDefaultModelForProvider(SupportedProviders, p)
       IN  tasks' = [tasks EXCEPT ![p].pc = "calling", ![p].called = TRUE,
                          ![p].defaultModel = d.model,
                          ![p].prep = AdapterPrepare(p, googleClient, qa.prompt,
                                          <<WithModel(d.model)>> \o qa.options)]
    /\ UNCHANGED <<staticVars, cfgKeys, serviceVars, storeVars, calls,
                   successes, ctxCancelled, qwt, logTasks, qa, results,
                   resultsMutex, wg, cli>>

(* The task taking the result lock before its call and keeping it until   *)
(* its insert: the calls run one at a time.                                *)
TaskStart_HoldsLock(p) ==
    /\ tasks[p].pc = "start"
    /\ resultsMutex = "free"
    /\ resultsMutex' = p
    /\ LET d == GetDefaultModelForProvider(SupportedProviders, p)
       IN  IF d.err # NoErr
           THEN tasks' = [tasks EXCEPT ![p].pc = "locked", ![p].err = d.err]
           ELSE tasks' = [tasks EXCEPT ![p].pc = "calling", ![p].called = TRUE,
                              ![p].defaultModel = d.model,
                              ![p].prep = AdapterPrepare(p, googleClient, qa.prompt,
                                              <<WithModel(d.model)>> \o qa.options)]
    /\ UNCHANGED <<staticVars, cfgKeys, serviceVars, storeVars, calls,
                   successes, ctxCancelled, qwt, logTasks, qa, results, wg, cli>>

(* Lines 150-171: default model lookup, option copy, entry into Query.     *)
TaskStart(p) ==
    /\ tasks[p].pc = "start"
    /\ LET d == GetDefaultModelForProvider(SupportedProviders, p)
       IN  IF d.err # NoErr
           THEN tasks' = [tasks EXCEPT ![p].pc = "wantLock", ![p].err = d.err]
           ELSE tasks' = [tasks EXCEPT ![p].pc = "calling", ![p].called = TRUE,
                              ![p].defaultModel = d.model,
                              ![p].prep = AdapterPrepare(p, googleClient, qa.prompt,
                                              <<WithModel(d.model)>> \o qa.options)]
    /\ UNCHANGED <<staticVars, cfgKeys, serviceVars, storeVars, calls,
                   successes, ctxCancelled, qwt, logTasks, qa, results,
                   resultsMutex, wg, cli>>

(* The task logging its successful call as the single-query path does.     *)
TaskAdapterReturn_Logs(p) ==
    /\ tasks[p].pc = "calling"
    /\ \E r \in AdapterResults(p, tasks[p].prep, ctxCancelled), d \in Durations :
          /\ tasks' = [tasks EXCEPT ![p].pc = "wantLock", ![p].response = r.response,
                            ![p].err = r.err, ![p].elapsedTime = d]
          /\ logTasks' = IF ShouldLog(r.err, logger)
                         THEN logTasks \cup
                                {[call |-> qa.call, prompt |-> qa.prompt,
                                  model |-> tasks[p].defaultModel, response |-> r.response,
                                  duration |-> d, temperature |-> LogDefaultTemperature]}
                         ELSE logTasks
    /\ UNCHANGED <<staticVars, cfgKeys, serviceVars, storeVars, calls,
                   successes, ctxCancelled, qwt, qa, results, resultsMutex, wg, cli>>

(* Lines 171-174: provider.Query returns and the elapsed time is taken.    *)
TaskAdapterReturn(p) ==
    /\ tasks[p].pc = "calling"
    /\ \E r \in AdapterResults(p, tasks[p].prep, ctxCancelled), d \in Durations :
          tasks' = [tasks EXCEPT ![p].pc = "wantLock", ![p].response = r.response,
                        ![p].err = r.err, ![p].elapsedTime = d]
    /\ UNCHANGED <<staticVars, cfgKeys, serviceVars, storeVars, calls,
                   successes, ctxCancelled, qwt, logTasks, qa, results,
                   resultsMutex, wg, cli>>

(* The insert entered without taking the mutex.                            *)
TaskLock_NoMutex(p) ==
    /\ tasks[p].pc = "wantLock"
    /\ resultsMutex' = p
    /\ tasks' = [tasks EXCEPT ![p].pc = "locked"]
    /\ UNCHANGED <<staticVars, cfgKeys, serviceVars, storeVars, calls,
                   successes, ctxCancelled, qwt, logTasks, qa, results, wg, cli>>

(* Lines 153 and 177: resultsMutex.Lock().                                 *)
TaskLock(p) ==
    /\ tasks[p].pc = "wantLock"
    /\ resultsMutex = "free"
    /\ resultsMutex' = p
    /\ tasks' = [tasks EXCEPT ![p].pc = "locked"]
    /\ UNCHANGED <<staticVars, cfgKeys, serviceVars, storeVars, calls,
                   successes, ctxCancelled, qwt, logTasks, qa, results, wg, cli>>

(* The entry a task stores: the error alone after a failed lookup (lines   *)
(* 154-157), else everything its call produced (lines 178-184).            *)
TaskEntry(p, t) ==
    IF t.called
    THEN ProviderResponse(t.response, t.defaultModel, p, t.err, t.elapsedTime)
    ELSE ProviderResponse("", "", p, t.err, 0)


(* The goroutine reading the loop variable instead of its own argument:    *)
(* the entry lands under the provider launched last.                       *)
TaskStore_LoopVariable(p) ==
    /\ tasks[p].pc = "locked"
    /\ results' = MapSet(results, qa.providerName, TaskEntry(qa.providerName, tasks[p]))
    /\ qa' = [qa EXCEPT !.writes = Bump(@, qa.providerName)]
    /\ tasks' = [tasks EXCEPT ![p].pc = "stored"]
    /\ UNCHANGED <<staticVars, cfgKeys, serviceVars, storeVars, calls,
                   successes, ctxCancelled, qwt, logTasks, resultsMutex, wg, cli>>

(* Lines 154-157 and 178-184: results[providerName] = ProviderResponse{}.  *)
TaskStore(p) ==
    /\ tasks[p].pc = "locked"
    /\ results' = MapSet(results, p, TaskEntry(p, tasks[p]))
    /\ qa' = [qa EXCEPT !.writes = Bump(@, p)]
    /\ tasks' = [tasks EXCEPT ![p].pc = "stored"]
    /\ UNCHANGED <<staticVars, cfgKeys, serviceVars, storeVars, calls,
                   successes, ctxCancelled, qwt, logTasks, resultsMutex, wg, cli>>

(* Lines 158 and 185: resultsMutex.Unlock().                               *)
TaskUnlock(p) ==
    /\ tasks[p].pc = "stored"
    /\ resultsMutex' = "free"
    /\ tasks' = [tasks EXCEPT ![p].pc = "unlocked"]
    /\ UNCHANGED <<staticVars, cfgKeys, serviceVars, storeVars, calls,
                   successes, ctxCancelled, qwt, logTasks, qa, results, wg, cli>>

(* Line 148: the deferred wg.Done() as the goroutine returns.              *)
TaskDone(p) ==
    /\ tasks[p].pc = "unlocked"
    /\ wg' = wg - 1
    /\ tasks' = [tasks EXCEPT ![p].pc = "done"]
    /\ UNCHANGED <<staticVars, cfgKeys, serviceVars, storeVars, calls,
                   successes, ctxCancelled, qwt, logTasks, qa, results,
                   resultsMutex, cli>>

(* QueryAll returning once the loop has ended, without wg.Wait().          *)
QueryAllReturn_NoWait ==
    /\ qa.pc = "launching"
    /\ qa.launched = providers
    /\ qa' = [qa EXCEPT !.pc = "returned"]
    /\ UNCHANGED <<staticVars, cfgKeys, serviceVars, storeVars, calls,
                   successes, ctxCancelled, qwt, logTasks, tasks, results,
                   resultsMutex, wg, cli>>

(* Lines 187-192: the loop has ended, wg.Wait() passes, results returned.  *)
QueryAllReturn ==
    /\ qa.pc = "launching"
    /\ qa.launched = providers
    /\ wg = 0
    /\ qa' = [qa EXCEPT !.pc = "returned"]
    /\ UNCHANGED <<staticVars, cfgKeys, serviceVars, storeVars, calls,
                   successes, ctxCancelled, qwt, logTasks, tasks, results,
                   resultsMutex, wg, cli>>

(* The caller of the package issues a fan-out query.                       *)
LibQueryAllOn(prompts, optionSeqs) ==
    /\ cli.pc = "none"
    /\ CallerIdle
    /\ calls < MaxCalls
    /\ \E prompt \in prompts, options \in optionSeqs : QueryAllBegin(prompt, options)
    /\ UNCHANGED <<staticVars, cfgKeys, serviceVars, storeVars,
                   successes, qwt, logTasks, cli>>

FanoutOptionSeqs ==
    { <<>>, <<WithTemperature(8)>>, <<WithModel("deepseek-chat")>> }

LibQueryAll == LibQueryAllOn(Prompts, FanoutOptionSeqs)

TaskStep(p) ==
    \/ TaskStart(p)
    \/ TaskAdapterReturn(p)
    \/ TaskLock(p)
    \/ TaskStore(p)
    \/ TaskUnlock(p)
    \/ TaskDone(p)

(* An earlier successful single-model query, as its goroutine holds it.    *)
PriorTask(prompt) ==
    [call |-> 0, prompt |-> prompt, model |-> "claude-3-7-sonnet-latest",
     response |-> ResponseText("anthropic"), duration |-> 2500000,
     temperature |-> LogDefaultTemperature]

(* QueryAll is entered by a service that may still have the logging        *)
(* goroutine of an earlier single-model query pending.                     *)
InitFanout ==
    \E pend \in {{}, {PriorTask("Test prompt")}} :
        /\ Constructed(<<>>, pend)
        /\ logger = "nil" => pend = {}

NextFanout ==
    \/ LibQueryAll
    \/ QueryAllReturn
    \/ CancelCtx
    \/ LogQueryRun
    \/ \E p \in ProviderNames : QueryAllLaunch(p)
    \/ \E p \in ProviderNames : TaskStart(p)
    \/ \E p \in ProviderNames : TaskAdapterReturn(p)
    \/ \E p \in ProviderNames : TaskLock(p)
    \/ \E p \in ProviderNames : TaskStore(p)
    \/ \E p \in ProviderNames : TaskUnlock(p)
    \/ \E p \in ProviderNames : TaskDone(p)

SpecFanout == InitFanout /\ [][NextFanout]_vars

(* Fan-out under the scheduling the Go runtime gives it: a goroutine that  *)
(* can take a step does, a call that fails before sending returns, and a   *)
(* call whose context is cancelled is aborted by the client.  A backend    *)
(* is not obliged to answer.                                               *)
FanoutProgress ==
    \/ QueryAllReturn
    \/ \E p \in ProviderNames : QueryAllLaunch(p)
    \/ \E p \in ProviderNames : TaskStart(p)
    \/ \E p \in ProviderNames :
          (ctxCancelled \/ ~tasks[p].prep.sent) /\ TaskAdapterReturn(p)
    \/ \E p \in ProviderNames : TaskLock(p)
    \/ \E p \in ProviderNames : TaskStore(p)
    \/ \E p \in ProviderNames : TaskUnlock(p)
    \/ \E p \in ProviderNames : TaskDone(p)

InitFanoutLive == Constructed(<<>>, {}) /\ logger = "nil"

NextFanoutLive ==
    \/ LibQueryAllOn({"hello"}, {<<>>})
    \/ QueryAllReturn
    \/ CancelCtx
    \/ \E p \in ProviderNames : QueryAllLaunch(p)
    \/ \E p \in ProviderNames : TaskStart(p)
    \/ \E p \in ProviderNames : TaskAdapterReturn(p)
    \/ \E p \in ProviderNames : TaskLock(p)
    \/ \E p \in ProviderNames : TaskStore(p)
    \/ \E p \in ProviderNames : TaskUnlock(p)
    \/ \E p \in ProviderNames : TaskDone(p)

LiveFanout == InitFanoutLive /\ [][NextFanoutLive]_vars /\ WF_vars(FanoutProgress)

(***************************************************************************)
(* The command line: root.go's RunE calling queryLLM, and main.            *)
(***************************************************************************)
TemperatureFlags == {0, 7, 8}

SystemPromptFlags == {"", "be brief"}

ErrLoadingConfig == "error loading config"

ErrNoAPIKeys == "no API keys found"

ErrAPIKeyNotFound == "API key not found"

ErrQueryingModel == "error querying model"

(* queryLLM's options: max tokens, the temperature flag and, when given,   *)
(* the system prompt as a custom parameter.                                *)
CliOptions(systemPromptFlag, temperatureFlag) ==
    <<WithMaxTokens(1000), WithTemperature(temperatureFlag)>> \o
    (IF systemPromptFlag # ""
     THEN <<WithCustomParam("system", "string", systemPromptFlag, 0)>>
     ELSE <<>>)

(* Config.GetAPIKey: the configured key, "" when there is none.            *)
GetAPIKey(cfg, provider) ==
    IF provider \in DOMAIN cfg THEN cfg[provider] ELSE ""

(* queryAllProviders' allApiKeys: the non-empty keys of the registry's     *)
(* providers.                                                              *)
AllApiKeys(table, cfg) ==
    [p \in {x \in DOMAIN table : GetAPIKey(cfg, x) # ""} |-> GetAPIKey(cfg, p)]

CliConfigs ==
    KeyConfigs \cup {[p \in ProviderNames |-> ""]}

(* queryLLM returning an error before any service call; its deferred       *)
(* Close, if a logger was opened, has run.                                 *)
CliFail(err) ==
    /\ cli' = [cli EXCEPT !.pc = "returned", !.err = err]
    /\ UNCHANGED <<providers, googleClient, logger, dbOpen>>

CliServiceReady(apiKeys, loggerOk, all, prompt, modelFlag, options) ==
    /\ providers' = NewService(apiKeys)
    /\ googleClient' \in GoogleClients(providers')
    /\ logger' = IF loggerOk THEN "set" ELSE "nil"
    /\ dbOpen' = loggerOk
    /\ cli' = [cli EXCEPT !.pc = "ready", !.all = all, !.prompt = prompt,
                          !.modelFlag = modelFlag, !.options = options]

(* queryAllProviders up to the service being built and given the logger.   *)
queryAllProviders(prompt, options, loggerOk) ==
    LET allApiKeys == AllApiKeys(SupportedProviders, cfgKeys)
    IN  IF DOMAIN allApiKeys = {}
        THEN CliFail(ErrNoAPIKeys)
        ELSE CliServiceReady(allApiKeys, loggerOk, TRUE, prompt, "", options)

(* querySingleProvider up to the service being built and given the logger. *)
querySingleProvider(prompt, modelFlag, options, loggerOk) ==
    IF ~IsValidModel(ModelToProvider, modelFlag)
    THEN CliFail(ErrUnknownModel)
    ELSE LET providerName == GetProviderForModel(ModelToProvider, modelFlag)
             apiKey == GetAPIKey(cfgKeys, providerName)
         IN  IF apiKey = ""
             THEN CliFail(ErrAPIKeyNotFound)
             ELSE CliServiceReady([p \in {providerName} |-> apiKey], loggerOk,
                                  FALSE, prompt, modelFlag, options)

(* queryLLM: the config is loaded, the logger opened (a failure only       *)
(* disables logging), the options built, and the query dispatched.         *)
queryLLM ==
    /\ cli.pc = "start"
    /\ \E loadOk \in BOOLEAN, loggerOk \in BOOLEAN, modelFlag \in ModelNames,
          systemPromptFlag \in SystemPromptFlags,
          temperatureFlag \in TemperatureFlags, queryAllFlag \in BOOLEAN :
          LET options == CliOptions(systemPromptFlag, temperatureFlag)
          IN  IF ~loadOk
              THEN CliFail(ErrLoadingConfig)
              ELSE IF queryAllFlag
                   THEN queryAllProviders("hello", options, loggerOk)
                   ELSE querySingleProvider("hello", modelFlag, options, loggerOk)
    /\ UNCHANGED <<staticVars, cfgKeys, records, nextId, stderr, logAttempts,
                   calls, successes, ctxCancelled, qwt, logTasks, fanoutVars>>

(* The service call of queryAllProviders or querySingleProvider.           *)
CliCallService ==
    /\ cli.pc = "ready"
    /\ cli' = [cli EXCEPT !.pc = "querying"]
    /\ IF cli.all
       THEN QueryAllBegin(cli.prompt, cli.options) /\ UNCHANGED qwt
       ELSE QueryWithTimingBegin(cli.prompt, cli.modelFlag, cli.options)
            /\ UNCHANGED fanoutVars
    /\ UNCHANGED <<staticVars, cfgKeys, serviceVars, storeVars, successes,
                   logTasks>>

(* The service call has returned: queryLLM returns and its deferred        *)
(* queryLogger.Close() runs.                                               *)
CliReturn ==
    /\ cli.pc = "querying"
    /\ IF cli.all THEN qa.pc = "returned" ELSE qwt.pc = "returned"
    /\ cli' = [cli EXCEPT !.pc = "returned",
                          !.err = IF ~cli.all /\ qwt.ret.err # NoErr
                                  THEN ErrQueryingModel ELSE NoErr]
    /\ dbOpen' = FALSE
    /\ UNCHANGED <<staticVars, cfgKeys, serviceVars, records, nextId, stderr,
                   logAttempts, calls, successes, ctxCancelled, qwt, logTasks,
                   fanoutVars>>

(* main returns or calls os.Exit: goroutines still pending are gone.       *)
CliExit ==
    /\ cli.pc = "returned"
    /\ cli' = [cli EXCEPT !.pc = "exited"]
    /\ logTasks' = {}
    /\ UNCHANGED <<staticVars, cfgKeys, serviceVars, storeVars, calls,
                   successes, ctxCancelled, qwt, fanoutVars>>

(* The process at the entry of queryLLM: the real registry, no service.    *)
InitCli ==
    /\ SupportedProviders = RealTable
    /\ ModelToProvider = BuildModelToProvider(SupportedProviders)
    /\ reg = ReadyReg
    /\ ns = IdleNs
    /\ clock = 0
    /\ rd = NoRead
    /\ ad = IdleAd
    /\ cfgKeys \in CliConfigs
    /\ providers = {}
    /\ googleClient = "nil"
    /\ logger = "nil"
    /\ dbOpen = FALSE
    /\ records = <<>>
    /\ nextId = 1
    /\ stderr = {}
    /\ calls = 0
    /\ successes = 0
    /\ ctxCancelled = FALSE
    /\ qwt = IdleQwt
    /\ logTasks = {}
    /\ logAttempts = EmptyMap
    /\ qa = IdleQa
    /\ tasks = [p \in ProviderNames |-> IdleTask]
    /\ results = EmptyMap
    /\ resultsMutex = "free"
    /\ wg = 0
    /\ cli = [IdleCli EXCEPT !.pc = "start"]

NextCli ==
    \/ queryLLM
    \/ CliCallService
    \/ CliReturn
    \/ CliExit
    \/ CancelCtx
    \/ QueryWithTimingAdapterReturn
    \/ QueryWithTimingReturn
    \/ LogQueryRun
    \/ QueryAllReturn
    \/ \E p \in ProviderNames : QueryAllLaunch(p)
    \/ \E p \in ProviderNames : TaskStart(p)
    \/ \E p \in ProviderNames : TaskAdapterReturn(p)
    \/ \E p \in ProviderNames : TaskLock(p)
    \/ \E p \in ProviderNames : TaskStore(p)
    \/ \E p \in ProviderNames : TaskUnlock(p)
    \/ \E p \in ProviderNames : TaskDone(p)

SpecCli == InitCli /\ [][NextCli]_vars

(***************************************************************************)
(* Properties of the command line.                                         *)
(***************************************************************************)
CliAnswered ==
    IF cli.all
    THEN \E p \in DOMAIN results : results[p].Error = NoErr
    ELSE qwt.adapterCalled /\ qwt.ret.err = NoErr

(* C6: every query made through the command line is logged: when queryLLM  *)
(* has returned from an answered query, single-model or to all providers,  *)
(* with the Query Logger opened, a Query Record of it is written or the    *)
(* write of one has been started.                                          *)
C6_EveryCliQueryLogged ==
    (cli.pc = "returned" /\ logger = "set" /\ CliAnswered) =>
        (Len(records) >= 1 \/ logTasks # {} \/ DOMAIN logAttempts # {})

(***************************************************************************)
(* Properties of QueryAll.                                                 *)
(***************************************************************************)
QueryAllReturned == qa.pc = "returned"

(* C1: the mapping QueryAll returns has exactly one entry per configured   *)
(* provider and no other key, whatever the outcome of each task.           *)
C1_KeySetIsProviders == QueryAllReturned => DOMAIN results = providers

C1_Witness ==
    /\ QueryAllReturned
    /\ \E p, q \in DOMAIN results :
          /\ results[p].Error = ErrNoModels
          /\ results[q].Error \notin {NoErr, ErrNoModels}

(* C2: QueryAll has returned only if every task it launched has stored    *)
(* its entry and finished.                                                 *)
C2_ReturnAfterJoin ==
    QueryAllReturned =>
        /\ wg = 0
        /\ resultsMutex = "free"
        /\ \A p \in providers : tasks[p].pc = "done" /\ p \in DOMAIN results

C2_Witness ==
    /\ QueryAllReturned
    /\ Cardinality(providers) >= 2
    /\ \A p \in providers : tasks[p].pc = "done"

(* C3: in the returned mapping every provider's entry holds the response   *)
(* and error its own adapter call produced and its own default model; one  *)
(* provider's failure shows only as the Error of its own entry.            *)
C3_FailureIsolated ==
    QueryAllReturned =>
        \A p \in providers :
            /\ p \in DOMAIN results
            /\ results[p].Provider = p
            /\ results[p].Response = tasks[p].response
            /\ results[p].Error = tasks[p].err
            /\ results[p].Model = tasks[p].defaultModel
            /\ results[p].Error = NoErr => results[p].Response = ResponseText(p)
            /\ results[p].Error # NoErr => results[p].Response = ""

C3_Witness ==
    /\ QueryAllReturned
    /\ \E p, q \in DOMAIN results :
          /\ tasks[p].called
          /\ results[p].Error # NoErr
          /\ results[q].Error = NoErr
          /\ results[q].Response = ResponseText(q)

(* C4: once the context is cancelled, a call that is pending on the        *)
(* network ends with a cancellation error, that error is the Error of the  *)
(* provider's entry, and QueryAll returns.                                 *)
C4_CancelEndsPendingCalls ==
    /\ [][\A p \in ProviderNames :
            (/\ tasks[p].pc = "calling"
             /\ tasks[p].prep.sent
             /\ ctxCancelled
             /\ tasks'[p].pc # "calling") => IsCanceled(tasks'[p].err)]_vars
    /\ [](QueryAllReturned =>
            \A p \in providers : p \in DOMAIN results /\ results[p].Error = tasks[p].err)
    /\ (qa.pc = "launching" /\ ctxCancelled) ~> QueryAllReturned

C4_Witness ==
    /\ QueryAllReturned
    /\ ctxCancelled
    /\ \A p \in providers : p \in DOMAIN results /\ IsCanceled(results[p].Error)

(* C10: no step of QueryAll writes a Query Record or starts a logging      *)
(* goroutine: every step that changes QueryAll's state leaves the rows and *)
(* the pending writes as they were.                                        *)
C10_QueryAllWritesNoHistory ==
    [][fanoutVars' # fanoutVars => (records' = records /\ logTasks' = logTasks)]_vars

C10_Witness ==
    /\ QueryAllReturned
    /\ logger = "set"
    /\ dbOpen
    /\ \A p \in providers : p \in DOMAIN results /\ results[p].Error = NoErr

(***************************************************************************)
(* Properties of QueryWithTiming and of the logging it starts.             *)
(***************************************************************************)
(* Single-model queries under the scheduling the Go runtime gives them: a  *)
(* started goroutine runs, a call that has its result returns.             *)
LiveService ==
    Init /\ [][NextService]_vars
         /\ WF_vars(LogQueryRun) /\ WF_vars(QueryWithTimingReturn)

Succeeded == qwt.pc = "returned" /\ qwt.err = NoErr

RecordsOf(c) == {i \in 1..Len(records) : records[i].call = c}

LogPending(c) == \E t \in logTasks : t.call = c

HoldsCall(r) ==
    /\ r.Prompt = qwt.prompt
    /\ r.Model = qwt.modelName
    /\ r.Response = qwt.out.response
    /\ r.Duration = Milliseconds(qwt.elapsedTime)
    /\ r.Temperature = qwt.temperature

(* C5 as stated: once QueryWithTiming has succeeded and its logging        *)
(* goroutine has run against the attached, still open store, exactly one   *)
(* Query Record of the call is persisted.                                  *)
C5_RecordAlwaysPersisted ==
    (Succeeded /\ logger = "set" /\ dbOpen /\ ~LogPending(qwt.call)) =>
        Cardinality(RecordsOf(qwt.call)) = 1

(* C5 amended: after a successful QueryWithTiming with a logger attached,  *)
(* the logging goroutine eventually runs, once, unless the process ends    *)
(* first; if its insert succeeds                                           *)
(* exactly one Query Record of the call is persisted, holding the prompt,  *)
(* the requested model, the adapter's response, the elapsed milliseconds   *)
(* and the extracted temperature; if the insert fails none is.             *)
C5_RecordPersistedUnlessInsertFails ==
    /\ [](Succeeded /\ logger = "set" =>
            /\ Cardinality(RecordsOf(qwt.call)) <= 1
            /\ \A i \in RecordsOf(qwt.call) : HoldsCall(records[i])
            /\ (~LogPending(qwt.call) /\ qwt.call \notin stderr) =>
                    Cardinality(RecordsOf(qwt.call)) = 1
            /\ qwt.call \in stderr => RecordsOf(qwt.call) = {})
    /\ \A c \in 1..MaxCalls :
          (qwt.call = c /\ Succeeded /\ logger = "set") ~>
              (c \in DOMAIN logAttempts \/ qwt.pc = "panicked")

C5_Witness ==
    /\ Succeeded
    /\ logger = "set"
    /\ dbOpen
    /\ \E i \in RecordsOf(qwt.call) :
          /\ records[i].Prompt = "hello"
          /\ records[i].Duration = 2
          /\ records[i].Temperature = 8

Rejected(err) ==
    /\ qwt.pc = "returned"
    /\ qwt.ret = Return("", 0, err)
    /\ ~qwt.adapterCalled

(* C7: a model outside the registry is rejected with the unknown-model     *)
(* error, a known model whose provider has no adapter with the             *)
(* provider-not-configured error; either way no adapter is called, the     *)
(* response is empty and the elapsed time zero.                            *)
C7_ValidationErrors ==
    qwt.pc # "idle" =>
        /\ ~IsValidModel(ModelToProvider, qwt.modelName) => Rejected(ErrUnknownModel)
        /\ (/\ IsValidModel(ModelToProvider, qwt.modelName)
            /\ GetProviderForModel(ModelToProvider, qwt.modelName) \notin providers)
              => Rejected(ErrProviderNotConfigured)
        /\ ErrUnknownModel # ErrProviderNotConfigured

C7_Witness ==
    /\ qwt.pc = "returned"
    /\ IsValidModel(ModelToProvider, qwt.modelName)
    /\ qwt.ret = Return("", 0, ErrProviderNotConfigured)
    /\ calls = 2

(* C8: there are never more Query Records than successful QueryWithTiming  *)
(* calls, and a call that failed has no record and no pending write.       *)
C8_RecordsOnlyForSuccess ==
    /\ Len(records) <= successes
    /\ (qwt.pc \in {"returning", "returned"} /\ qwt.err # NoErr) =>
            (RecordsOf(qwt.call) = {} /\ ~LogPending(qwt.call))

C8_Witness ==
    /\ qwt.pc = "returned"
    /\ qwt.adapterCalled
    /\ qwt.err # NoErr
    /\ logger = "set"
    /\ dbOpen
    /\ Len(records) = 1

(* C9: QueryWithTiming returns what its adapter call produced, with the    *)
(* elapsed time taken, also when the logging goroutine's write fails, and  *)
(* LogQuery is invoked at most once per call.                              *)
C9_LogFailureInvisible ==
    /\ \A c \in DOMAIN logAttempts : logAttempts[c] <= 1
    /\ (qwt.pc = "returned" /\ qwt.adapterCalled) =>
            qwt.ret = Return(qwt.out.response, qwt.elapsedTime, qwt.out.err)

C9_Witness ==
    /\ qwt.pc = "returned"
    /\ qwt.call \in stderr
    /\ qwt.ret = Return(ResponseText(qwt.provider), 2500000, NoErr)

(***************************************************************************)
(* The registry on its own: package initialisation, the lookups, and the   *)
(* table replaced as service_test.go does.                                 *)
(***************************************************************************)
DefaultsTable ==
    [p \in {"provider1", "provider2", "empty-provider"} |->
        CASE p = "provider1" -> <<"model1", "model2">>
          [] p = "provider2" -> <<"model3">>
          [] p = "empty-provider" -> <<>>]

LookupProviders ==
    {"anthropic", "deepseek", "google", "provider1", "provider2",
     "empty-provider", "non-existent"}

LookupModels ==
    {"claude-3-7-sonnet-latest", "deepseek-coder", "deepseek-chat",
     "gemini-2.5-pro-exp-03-25", "gemini-2.0-flash", "gemini-1.5-flash-8b",
     "model1", "model3", "unknown-model"}

(* init(): the index is built from the table, in range's order.            *)
RegistryInit ==
    /\ reg.pc = "start"
    /\ \E order \in ProviderOrders(SupportedProviders) :
          ModelToProvider' = InitIndex(SupportedProviders, order, EmptyIndex)
    /\ reg' = ReadyReg
    /\ UNCHANGED <<SupportedProviders, ns, clock, rd, ad>>

(* SupportedProviders = map[string]ProviderModel{...}: the table is        *)
(* replaced, the index stays as init built it.                             *)
SetSupportedProviders ==
    /\ reg.pc = "ready"
    /\ \E table \in {RealTable, TestTable, DefaultsTable} :
          /\ table # SupportedProviders
          /\ SupportedProviders' = table
    /\ reg' = ReadyReg
    /\ UNCHANGED <<ModelToProvider, ns, clock, rd, ad>>

Looked(op, arg, str, list, ok, err) ==
    [pc |-> "ready", op |-> op, arg |-> arg, str |-> str, list |-> list,
     ok |-> ok, err |-> err]

CallIsValidProvider ==
    /\ reg.pc = "ready"
    /\ \E p \in LookupProviders :
          reg' = Looked("IsValidProvider", p, "", <<>>,
                        IsValidProvider(SupportedProviders, p), NoErr)
    /\ UNCHANGED <<SupportedProviders, ModelToProvider, ns, clock, rd, ad>>

CallGetModelsForProvider ==
    /\ reg.pc = "ready"
    /\ \E p \in LookupProviders :
          reg' = Looked("GetModelsForProvider", p, "",
                        GetModelsForProvider(SupportedProviders, p), FALSE, NoErr)
    /\ UNCHANGED <<SupportedProviders, ModelToProvider, ns, clock, rd, ad>>

CallGetProviderForModel ==
    /\ reg.pc = "ready"
    /\ \E m \in LookupModels :
          reg' = Looked("GetProviderForModel", m,
                        GetProviderForModel(ModelToProvider, m), <<>>,
                        IsValidModel(ModelToProvider, m), NoErr)
    /\ UNCHANGED <<SupportedProviders, ModelToProvider, ns, clock, rd, ad>>

CallIsValidModel ==
    /\ reg.pc = "ready"
    /\ \E m \in LookupModels :
          reg' = Looked("IsValidModel", m, "", <<>>,
                        IsValidModel(ModelToProvider, m), NoErr)
    /\ UNCHANGED <<SupportedProviders, ModelToProvider, ns, clock, rd, ad>>

CallGetDefaultModelForProvider ==
    /\ reg.pc = "ready"
    /\ \E p \in LookupProviders :
          LET d == GetDefaultModelForProvider(SupportedProviders, p)
          IN  reg' = Looked("GetDefaultModelForProvider", p, d.model, <<>>,
                            d.err = NoErr, d.err)
    /\ UNCHANGED <<SupportedProviders, ModelToProvider, ns, clock, rd, ad>>

otherVars ==
    <<cfgKeys, serviceVars, storeVars, calls, successes, ctxCancelled, qwt,
      logTasks, fanoutVars, cli>>

(* The process before package initialisation has run.                      *)
InitRegistry ==
    /\ SupportedProviders = RealTable
    /\ ModelToProvider = EmptyIndex
    /\ reg = [ReadyReg EXCEPT !.pc = "start"]
    /\ ns = IdleNs
    /\ clock = 0
    /\ rd = NoRead
    /\ ad = IdleAd
    /\ cfgKeys = [p \in ProviderNames |-> ""]
    /\ providers = {}
    /\ googleClient = "nil"
    /\ logger = "nil"
    /\ dbOpen = FALSE
    /\ records = <<>>
    /\ nextId = 1
    /\ stderr = {}
    /\ calls = 0
    /\ successes = 0
    /\ ctxCancelled = FALSE
    /\ qwt = IdleQwt
    /\ logTasks = {}
    /\ logAttempts = EmptyMap
    /\ qa = IdleQa
    /\ tasks = [p \in ProviderNames |-> IdleTask]
    /\ results = EmptyMap
    /\ resultsMutex = "free"
    /\ wg = 0
    /\ cli = IdleCli

NextRegistry ==
    \/ RegistryInit /\ UNCHANGED otherVars
    \/ SetSupportedProviders /\ UNCHANGED otherVars
    \/ CallIsValidProvider /\ UNCHANGED otherVars
    \/ CallGetModelsForProvider /\ UNCHANGED otherVars
    \/ CallGetProviderForModel /\ UNCHANGED otherVars
    \/ CallIsValidModel /\ UNCHANGED otherVars
    \/ CallGetDefaultModelForProvider /\ UNCHANGED otherVars

SpecRegistry == InitRegistry /\ [][NextRegistry]_vars

(* C11: while the table is the one the index was built from at startup,    *)
(* every model of every provider's list is indexed under that provider,    *)
(* every indexed model is in the list of the provider it maps to, no model *)
(* is in two providers' lists, and GetProviderForModel answers with a      *)
(* provider that lists the model.                                          *)
C11_IndexConsistentWithTable ==
    (reg.pc = "ready" /\ SupportedProviders = RealTable) =>
        /\ \A p \in DOMAIN SupportedProviders :
              \A m \in Range(GetModelsForProvider(SupportedProviders, p)) :
                  /\ IsValidModel(ModelToProvider, m)
                  /\ GetProviderForModel(ModelToProvider, m) = p
        /\ \A m \in DOMAIN ModelToProvider :
              /\ IsValidProvider(SupportedProviders, ModelToProvider[m])
              /\ m \in Range(GetModelsForProvider(SupportedProviders, ModelToProvider[m]))
        /\ \A p, q \in DOMAIN SupportedProviders :
              p # q => Range(SupportedProviders[p]) \cap Range(SupportedProviders[q]) = {}
        /\ (reg.op = "GetProviderForModel" /\ reg.ok) =>
              reg.arg \in Range(GetModelsForProvider(SupportedProviders, reg.str))

C11_Witness ==
    /\ SupportedProviders = RealTable
    /\ reg.op = "GetProviderForModel"
    /\ reg.arg = "gemini-1.5-flash-8b"
    /\ reg.ok
    /\ reg.str = "google"
    /\ Cardinality(DOMAIN ModelToProvider) = 8

(* C12: GetDefaultModelForProvider answers with the first model of the     *)
(* provider's list and no error, and with an error and no model when the   *)
(* provider is not in the table or its list is empty.                      *)
C12_DefaultIsFirstModel ==
    reg.op = "GetDefaultModelForProvider" =>
        IF reg.arg \in DOMAIN SupportedProviders /\ Len(SupportedProviders[reg.arg]) > 0
        THEN /\ reg.err = NoErr
             /\ reg.str = Head(SupportedProviders[reg.arg])
        ELSE /\ reg.err = ErrNoModels
             /\ reg.str = ""

C12_Witness ==
    /\ reg.op = "GetDefaultModelForProvider"
    /\ reg.arg = "empty-provider"
    /\ SupportedProviders = DefaultsTable
    /\ reg.err = ErrNoModels

(***************************************************************************)
(* The Logger on its own (logger.go): LogQuery, GetRecentQueries,          *)
(* SearchQueries, Close and NewLogger called directly, as logger_test.go   *)
(* and the history command do.                                             *)
(***************************************************************************)
MaxRecords == 3

MaxClock == 2

ErrFetch == "failed to fetch queries"

ErrSearch == "failed to search queries"

ErrScan == "failed to scan row"

ErrParseTimestamp == "failed to parse timestamp"

(* The prompt and response pairs LogQuery is given.                        *)
LoggedTexts == {<<"go", "ok">>, <<"Go", "abc">>}

SearchTexts == {"go", "a_c", "x"}

Limits == {0, 1, 2}

DefaultLimit == 10

(* The characters of the texts the Logger is given.                        *)
Chars(str) ==
    CASE str = "go"  -> <<"g", "o">>
      [] str = "Go"  -> <<"G", "o">>
      [] str = "ok"  -> <<"o", "k">>
      [] str = "abc" -> <<"a", "b", "c">>
      [] str = "a_c" -> <<"a", "_", "c">>
      [] str = "x"   -> <<"x">>
      [] OTHER       -> <<>>

(* text occurs in str as a substring.                                      *)
Contains(str, text) ==
    LET s == Chars(str)
        t == Chars(text)
    IN  \E i \in 1..(Len(s) + 1) :
            /\ i + Len(t) - 1 <= Len(s)
            /\ SubSeq(s, i, i + Len(t) - 1) = t

(* SQLite's LIKE compares ASCII letters without regard to case.            *)
Fold(c) == IF c = "G" THEN "g" ELSE c

(* SQLite's LIKE: % matches any run of characters, _ any one character.    *)
RECURSIVE LikeMatch(_, _)
LikeMatch(pattern, s) ==
    IF pattern = <<>>
    THEN s = <<>>
    ELSE IF Head(pattern) = "%"
         THEN LikeMatch(Tail(pattern), s) \/ (s # <<>> /\ LikeMatch(pattern, Tail(s)))
         ELSE /\ s # <<>>
              /\ Head(pattern) = "_" \/ Fold(Head(pattern)) = Fold(Head(s))
              /\ LikeMatch(Tail(pattern), Tail(s))

(* logger.go:130 and the WHERE clause of 134-137.                          *)
SearchMatches(row, text) ==
    LET pattern == <<"%">> \o Chars(text) \o <<"%">>
    IN  LikeMatch(pattern, Chars(row.Prompt)) \/ LikeMatch(pattern, Chars(row.Response))

EffectiveLimit(limit) == IF limit <= 0 THEN DefaultLimit ELSE limit

(* ORDER BY timestamp DESC: every arrangement of the selected rows with    *)
(* the stored timestamps non-increasing; rows with equal timestamps come   *)
(* in any order.                                                           *)
OrderByTimestampDesc(selected) ==
    {o \in [1..Cardinality(selected) -> selected] :
        /\ \A i, j \in DOMAIN o : o[i] = o[j] => i = j
        /\ \A i, j \in DOMAIN o :
              i < j => records[o[i]].Timestamp >= records[o[j]].Timestamp}

Take(seq, n) == SubSeq(seq, 1, IF n < Len(seq) THEN n ELSE Len(seq))

(* rows.Scan and time.Parse of one row (logger.go:100-117).                *)
ScanRow(row) ==
    [ID |-> row.ID, Timestamp |-> ParseRFC3339(row.Timestamp),
     Prompt |-> row.Prompt, Model |-> row.Model, Response |-> row.Response,
     Duration |-> row.Duration, Temperature |-> row.Temperature]

ReadOutcome(queries, err, fault, total) ==
    [queries |-> queries, err |-> err, fault |-> fault, total |-> total]

(* What a read returns for the rows the statement selects, in order        *)
(* (logger.go:88-120): db.Query may fail, a row may fail to scan or its    *)
(* timestamp to parse, and rows.Next() may stop on an error of the store,  *)
(* which ends the loop like the end of the rows does.                      *)
ReadOutcomes(rows, open, errQuery) ==
    LET n == Len(rows)
        decoded == [i \in 1..n |-> ScanRow(records[rows[i]])]
    IN  IF ~open
        THEN {ReadOutcome(<<>>, errQuery, "query", 0)}
        ELSE {ReadOutcome(<<>>, errQuery, "query", 0),
              ReadOutcome(decoded, NoErr, "none", n)}
             \cup {ReadOutcome(<<>>, ErrScan, "scan", n) : k \in 1..n}
             \cup {ReadOutcome(<<>>, ErrParseTimestamp, "parse", n) : k \in 1..n}
             \cup {ReadOutcome(SubSeq(decoded, 1, k - 1), NoErr, "next", n) : k \in 1..n}

serviceIdleVars ==
    <<SupportedProviders, ModelToProvider, reg, ns, ad, cfgKeys, serviceVars, calls,
      successes, ctxCancelled, qwt, logTasks, fanoutVars, cli>>

(* time passes.                                                            *)
Tick ==
    /\ clock < MaxClock
    /\ clock' = clock + 1
    /\ UNCHANGED <<serviceIdleVars, storeVars, rd>>

LogInput(prompt, response) ==
    [call |-> 0, prompt |-> prompt, model |-> "test-model", response |-> response,
     duration |-> 100000000, temperature |-> 7]

(* Logger.LogQuery (logger.go:65-80).                                      *)
CallLogQuery ==
    /\ Len(records) < MaxRecords
    /\ \E texts \in LoggedTexts, logErr \in LogQueryOutcomes(dbOpen) :
          LET t == LogInput(texts[1], texts[2])
          IN  /\ IF logErr = NoErr
                 THEN /\ records' = Append(records, Query(nextId, t))
                      /\ nextId' = nextId + 1
                 ELSE UNCHANGED <<records, nextId>>
              /\ rd' = [NoRead EXCEPT !.op = "LogQuery", !.err = logErr,
                                      !.logged = IF logErr = NoErr THEN <<t>> ELSE <<>>,
                                      !.before = Len(records)]
    /\ UNCHANGED <<serviceIdleVars, clock, dbOpen, stderr, logAttempts>>

Called(op, limit, text, out) ==
    [op |-> op, limit |-> limit, text |-> text,
     logged |-> IF rd.op = "LogQuery" THEN rd.logged ELSE <<>>,
     queries |-> out.queries, err |-> out.err, fault |-> out.fault,
     total |-> out.total, before |-> Len(records)]

(* Logger.GetRecentQueries (logger.go:83-121).                             *)
CallGetRecentQueries ==
    /\ \E limit \in Limits, o \in OrderByTimestampDesc(1..Len(records)) :
          \E out \in ReadOutcomes(Take(o, EffectiveLimit(limit)), dbOpen, ErrFetch) :
              rd' = Called("GetRecentQueries", limit, "", out)
    /\ UNCHANGED <<serviceIdleVars, clock, storeVars>>

(* Logger.SearchQueries (logger.go:124-169).                               *)
CallSearchQueries ==
    /\ \E text \in SearchTexts, limit \in Limits :
          \E o \in OrderByTimestampDesc({i \in 1..Len(records) :
                                            SearchMatches(records[i], text)}) :
              \E out \in ReadOutcomes(Take(o, EffectiveLimit(limit)), dbOpen, ErrSearch) :
                  rd' = Called("SearchQueries", limit, text, out)
    /\ UNCHANGED <<serviceIdleVars, clock, storeVars>>

(* NewLogger on the directory of a closed store (logger.go:20-54): the     *)
(* table is created only if it does not exist.                             *)
CallNewLogger ==
    /\ ~dbOpen
    /\ dbOpen' = TRUE
    /\ UNCHANGED <<serviceIdleVars, clock, records, nextId, stderr, logAttempts, rd>>

(* A process that has opened a new store with NewLogger.                   *)
InitLogger ==
    /\ SupportedProviders = RealTable
    /\ ModelToProvider = BuildModelToProvider(RealTable)
    /\ reg = ReadyReg
    /\ ns = IdleNs
    /\ clock = 0
    /\ rd = NoRead
    /\ ad = IdleAd
    /\ cfgKeys = [p \in ProviderNames |-> ""]
    /\ providers = {}
    /\ googleClient = "nil"
    /\ logger = "nil"
    /\ dbOpen = TRUE
    /\ records = <<>>
    /\ nextId = 1
    /\ stderr = {}
    /\ calls = 0
    /\ successes = 0
    /\ ctxCancelled = FALSE
    /\ qwt = IdleQwt
    /\ logTasks = {}
    /\ logAttempts = EmptyMap
    /\ qa = IdleQa
    /\ tasks = [p \in ProviderNames |-> IdleTask]
    /\ results = EmptyMap
    /\ resultsMutex = "free"
    /\ wg = 0
    /\ cli = IdleCli

NextLogger ==
    \/ Tick
    \/ CallLogQuery
    \/ CallGetRecentQueries
    \/ CallSearchQueries
    \/ LoggerClose
    \/ CallNewLogger

SpecLogger == InitLogger /\ [][NextLogger]_vars

RecordIds == {records[i].ID : i \in 1..Len(records)}

(* C13: the history only grows at its end: a step leaves every written     *)
(* record as it was, adds at most one, a successful LogQuery adds exactly  *)
(* one, and the added record's id is the id of no earlier record.          *)
C13_HistoryAppendOnly ==
    [][/\ Len(records') \in {Len(records), Len(records) + 1}
       /\ SubSeq(records', 1, Len(records)) = records
       /\ Len(records') = Len(records) + 1 =>
              records'[Len(records')].ID \notin RecordIds
       /\ (rd'.op = "LogQuery" /\ rd'.err = NoErr /\ rd'.before = Len(records)) =>
              Len(records') = Len(records) + 1]_vars

C13_Witness ==
    /\ Len(records) = 3
    /\ Cardinality(RecordIds) = 3
    /\ rd.op = "SearchQueries"
    /\ rd.err = NoErr
    /\ ~dbOpen

ReadSucceeded(op) == rd.op = op /\ rd.err = NoErr /\ rd.fault = "none"

(* The position of a returned record in the history, in logging order.     *)
LoggedAt(q) == CHOOSE i \in 1..Len(records) : records[i].ID = q.ID

ReturnedIds == {rd.queries[i].ID : i \in 1..Len(rd.queries)}

(* C14: a successful LogQuery followed immediately by a successful         *)
(* GetRecentQueries(1) returns exactly one record, and it holds the        *)
(* prompt, model, response, duration in milliseconds and temperature just  *)
(* logged, whatever the store held before.                                 *)
C14_LogThenRecentRoundTrip ==
    (ReadSucceeded("GetRecentQueries") /\ rd.limit = 1 /\ rd.logged # <<>>) =>
        /\ Len(rd.queries) = 1
        /\ rd.queries[1].Prompt = rd.logged[1].prompt
        /\ rd.queries[1].Model = rd.logged[1].model
        /\ rd.queries[1].Response = rd.logged[1].response
        /\ rd.queries[1].Duration = Milliseconds(rd.logged[1].duration)
        /\ rd.queries[1].Temperature = rd.logged[1].temperature

(* C15: a successful GetRecentQueries(limit) returns at most limit         *)
(* records (10 when limit <= 0), a record logged later before a record     *)
(* logged earlier, and omits no record logged after one it returns.        *)
C15_RecentMostRecentFirst ==
    ReadSucceeded("GetRecentQueries") =>
        /\ Len(rd.queries) <= EffectiveLimit(rd.limit)
        /\ \A i, j \in 1..Len(rd.queries) :
              i < j => LoggedAt(rd.queries[i]) > LoggedAt(rd.queries[j])
        /\ \A k \in 1..Len(records) :
              records[k].ID \notin ReturnedIds =>
                  \A i \in 1..Len(rd.queries) : LoggedAt(rd.queries[i]) > k

(* C16: a successful SearchQueries(text, limit) returns only records in    *)
(* whose prompt or response text occurs as a substring, and an empty       *)
(* sequence on an empty store.                                             *)
C16_SearchOnlyContaining ==
    ReadSucceeded("SearchQueries") =>
        /\ \A i \in 1..Len(rd.queries) :
              \/ Contains(rd.queries[i].Prompt, rd.text)
              \/ Contains(rd.queries[i].Response, rd.text)
        /\ records = <<>> => rd.queries = <<>>

(* C17: a read during which the store failed, when the query was issued,   *)
(* while the rows were iterated or while a row was decoded, returns an     *)
(* error and no records.                                                   *)
C17_NoPartialRead ==
    (rd.op \in {"GetRecentQueries", "SearchQueries"} /\ rd.fault # "none") =>
        /\ rd.err # NoErr
        /\ rd.queries = <<>>

(***************************************************************************)
(* NewService and SetLogger called directly (service.go:30-60), as         *)
(* service_test.go does.                                                   *)
(***************************************************************************)
CredentialNames == {"anthropic", "deepseek", "google", "openai"}

(* The mappings NewService is given: any of the names present or absent,   *)
(* a present credential empty or not.                                      *)
ApiKeyMaps ==
    UNION {[names -> {"", "key"}] : names \in SUBSET CredentialNames}

CallNewService ==
    /\ ns.pc = "start"
    /\ providers' = NewService(ns.apiKeys)
    /\ googleClient' \in GoogleClients(providers')
    /\ ns' = [ns EXCEPT !.pc = "built"]
    /\ UNCHANGED <<SupportedProviders, ModelToProvider, reg, clock, rd, ad, cfgKeys,
                   logger, storeVars, calls, successes, ctxCancelled, qwt,
                   logTasks, fanoutVars, cli>>

(* Service.SetLogger (service.go:58-60) with an open Logger.               *)
CallSetLogger ==
    /\ ns.pc = "built"
    /\ logger = "nil"
    /\ logger' = "set"
    /\ dbOpen' = TRUE
    /\ UNCHANGED <<staticVars, cfgKeys, providers, googleClient, records, nextId,
                   stderr, logAttempts, calls, successes, ctxCancelled, qwt,
                   logTasks, fanoutVars, cli>>

(* A caller holding the mapping it is about to pass to NewService.         *)
InitNewService ==
    /\ SupportedProviders = RealTable
    /\ ModelToProvider = BuildModelToProvider(RealTable)
    /\ reg = ReadyReg
    /\ ns \in {[pc |-> "start", apiKeys |-> m] : m \in ApiKeyMaps}
    /\ clock = 0
    /\ rd = NoRead
    /\ ad = IdleAd
    /\ cfgKeys = [p \in ProviderNames |-> ""]
    /\ providers = {}
    /\ googleClient = "nil"
    /\ logger = "nil"
    /\ dbOpen = FALSE
    /\ records = <<>>
    /\ nextId = 1
    /\ stderr = {}
    /\ calls = 0
    /\ successes = 0
    /\ ctxCancelled = FALSE
    /\ qwt = IdleQwt
    /\ logTasks = {}
    /\ logAttempts = EmptyMap
    /\ qa = IdleQa
    /\ tasks = [p \in ProviderNames |-> IdleTask]
    /\ results = EmptyMap
    /\ resultsMutex = "free"
    /\ wg = 0
    /\ cli = IdleCli

NextNewService ==
    \/ CallNewService
    \/ CallSetLogger

SpecNewService == InitNewService /\ [][NextNewService]_vars

HasCredential(apiKeys, p) == p \in DOMAIN apiKeys /\ apiKeys[p] # ""

(* C18: the service NewService returns has an adapter for a name exactly   *)
(* if the name is anthropic, deepseek or google and the mapping holds a    *)
(* non-empty credential for it.                                            *)
C18_AdaptersForNonEmptyKeys ==
    ns.pc = "built" =>
        \A p \in CredentialNames :
            p \in providers <=>
                (p \in {"anthropic", "deepseek", "google"} /\ HasCredential(ns.apiKeys, p))

C18_Witness ==
    /\ ns.pc = "built"
    /\ DOMAIN ns.apiKeys = {"anthropic", "deepseek", "openai"}
    /\ ns.apiKeys["anthropic"] = "key"
    /\ ns.apiKeys["deepseek"] = ""
    /\ ns.apiKeys["openai"] = "key"
    /\ providers = {"anthropic"}

(***************************************************************************)
(* An adapter's Query called directly, as deepseek_test.go does.           *)
(***************************************************************************)
AdapterOptionSeqs ==
    { <<>>,
      <<WithModel("")>>,
      <<WithTemperature(8), WithMaxTokens(50)>>,
      <<WithModel("model-a"), WithModel("")>>,
      <<WithModel("model-a")>>,
      <<WithModel(""), WithModel("model-a"), WithTemperature(0)>>,
      <<WithModel("model-a"), WithCustomParam("system", "string", "be brief", 0)>>,
      <<WithModel("model-a"), WithCustomParam("system", "string", "", 0)>>,
      <<WithModel("model-a"), WithCustomParam("system", "int", "", 1)>>,
      <<WithCustomParam("system", "string", "be brief", 0), WithMaxTokens(50),
        WithCustomParam("top_p", "float64", "", 9), WithModel("model-a"),
        WithCustomParam("system", "string", "be terse", 0), WithMaxTokens(60),
        WithTemperature(2), WithModel("model-b")>> }

(* The exchanges a call that returned r can have completed: one that       *)
(* decodes to r when the request was sent and not cancelled, none          *)
(* otherwise.                                                              *)
ExchangesOf(p, prep, cancelled, r) ==
    IF prep.sent /\ ~cancelled
    THEN {x \in ExchangesFor(p) : DecodeExchange(p, x) = r}
    ELSE {NoExchange}

CallAdapterQuery ==
    /\ ad.pc \in {"idle", "returned"}
    /\ calls < MaxCalls
    /\ calls' = calls + 1
    /\ ctxCancelled' = FALSE
    /\ \E p \in ProviderNames, options \in AdapterOptionSeqs :
          ad' = [pc |-> "calling", provider |-> p, options |-> options,
                 prep |-> AdapterPrepare(p, googleClient, "hello", options),
                 exchange |-> NoExchange, out |-> Result("", NoErr)]
    /\ UNCHANGED <<SupportedProviders, ModelToProvider, reg, ns, clock, rd, cfgKeys,
                   serviceVars, storeVars, successes, qwt, logTasks, fanoutVars, cli>>

AdapterQueryReturn ==
    /\ ad.pc = "calling"
    /\ \E r \in AdapterResults(ad.provider, ad.prep, ctxCancelled) :
          \E x \in ExchangesOf(ad.provider, ad.prep, ctxCancelled, r) :
              ad' = [ad EXCEPT !.pc = "returned", !.exchange = x, !.out = r]
    /\ UNCHANGED <<SupportedProviders, ModelToProvider, reg, ns, clock, rd, cfgKeys,
                   serviceVars, storeVars, calls, successes, ctxCancelled, qwt,
                   logTasks, fanoutVars, cli>>

(* The three adapters as their constructors leave them; the Google         *)
(* adapter's client is nil when genai.NewClient failed.                    *)
InitAdapter ==
    /\ SupportedProviders = RealTable
    /\ ModelToProvider = BuildModelToProvider(RealTable)
    /\ reg = ReadyReg
    /\ ns = IdleNs
    /\ clock = 0
    /\ rd = NoRead
    /\ ad = IdleAd
    /\ cfgKeys = [p \in ProviderNames |-> "key"]
    /\ providers = {}
    /\ googleClient \in {"nil", "open"}
    /\ logger = "nil"
    /\ dbOpen = FALSE
    /\ records = <<>>
    /\ nextId = 1
    /\ stderr = {}
    /\ calls = 0
    /\ successes = 0
    /\ ctxCancelled = FALSE
    /\ qwt = IdleQwt
    /\ logTasks = {}
    /\ logAttempts = EmptyMap
    /\ qa = IdleQa
    /\ tasks = [p \in ProviderNames |-> IdleTask]
    /\ results = EmptyMap
    /\ resultsMutex = "free"
    /\ wg = 0
    /\ cli = IdleCli

NextAdapter ==
    \/ CallAdapterQuery
    \/ AdapterQueryReturn
    \/ CancelCtx

SpecAdapter == InitAdapter /\ [][NextAdapter]_vars

ModelLeftEmpty ==
    /\ ad.pc # "idle"
    /\ ApplyOptions(AdapterDefaults(ad.provider), ad.options).Model = ""

(* C19 as stated: a Query whose options leave the model empty makes no     *)
(* outbound call and fails with the model-required error.                  *)
C19_EmptyModelIsModelRequired ==
    ModelLeftEmpty =>
        /\ ~ad.prep.sent
        /\ ad.pc = "returned" => ad.out = Result("", ErrModelRequired)

(* C19 amended: a Query whose options leave the model empty makes no       *)
(* outbound call and fails, with the model-required error, except for a    *)
(* Google adapter without a client, which fails with its                   *)
(* client-not-initialized error.                                           *)
C19_EmptyModelFailsBeforeSending ==
    ModelLeftEmpty =>
        /\ ~ad.prep.sent
        /\ ad.pc = "returned" =>
              ad.out = Result("", IF ad.provider = "google" /\ googleClient = "nil"
                                  THEN ErrGoogleClient
                                  ELSE ErrModelRequired)

C19_Witness ==
    /\ ModelLeftEmpty
    /\ ad.pc = "returned"
    /\ ad.provider = "deepseek"
    /\ ad.options = <<WithModel("model-a"), WithModel("")>>
    /\ ad.out.err = ErrModelRequired

(* C20: the temperature of a Query Record is the temperature the adapter   *)
(* applied to the call the record was written for, whatever options the    *)
(* caller gave.                                                            *)
C20_LoggedTemperatureIsApplied ==
    \A i \in 1..Len(records) :
        (qwt.pc # "idle" /\ records[i].call = qwt.call) =>
            records[i].Temperature = qwt.prep.req.Temperature

(***************************************************************************)
(* The model a call reports and the model its adapter used.                *)
(***************************************************************************)
(* C21: the model reported for a call is the model the adapter used for    *)
(* it, whatever options the caller gives: a Query Record's Model is the    *)
(* model of the request QueryWithTiming's adapter sent, and an entry's     *)
(* Model is the model of the request its QueryAll task sent.               *)
C21_ReportedModelIsUsedModel ==
    /\ \A i \in 1..Len(records) :
          (qwt.pc # "idle" /\ records[i].call = qwt.call /\ qwt.prep.sent) =>
              records[i].Model = qwt.prep.req.Model
    /\ \A p \in DOMAIN results :
          (tasks[p].called /\ tasks[p].prep.sent) =>
              results[p].Model = tasks[p].prep.req.Model

(***************************************************************************)
(* The Google adapter's client handle.                                     *)
(***************************************************************************)
(* GoogleProvider.Close (google.go:107-114): the client, if there is one,  *)
(* is closed.  Service has no method that reaches it and neither           *)
(* queryAllProviders nor querySingleProvider calls it, so it is a step of  *)
(* no specification here.                                                  *)
GoogleProviderClose ==
    /\ googleClient' = IF googleClient = "open" THEN "closed" ELSE googleClient
    /\ UNCHANGED <<staticVars, cfgKeys, providers, logger, storeVars, calls,
                   successes, ctxCancelled, qwt, logTasks, fanoutVars, cli>>

(* The command's service is torn down: queryLLM has returned, nothing      *)
(* refers to the service any more.                                         *)
CliServiceTornDown == cli.pc = "returned" /\ providers # {}

(* C22: once the service that owns the Google adapter is torn down, the    *)
(* adapter's release operation has been invoked: its client handle is not  *)
(* open any more.                                                          *)
C22_ClientReleasedAtTeardown ==
    (CliServiceTornDown /\ "google" \in providers) => googleClient # "open"

(***************************************************************************)
(* The result mapping as a shared resource.                                *)
(***************************************************************************)
(* The tasks between resultsMutex.Lock() and resultsMutex.Unlock().        *)
InsideInsert == {p \in ProviderNames : tasks[p].pc \in {"locked", "stored"}}

(* C23: writes to QueryAll's result mapping are mutually exclusive: at     *)
(* most one task is inside an insert at any time, no key is written more   *)
(* than once, and when QueryAll returns every provider's key has been      *)
(* written exactly once.                                                   *)
C23_InsertsMutuallyExclusive ==
    /\ Cardinality(InsideInsert) <= 1
    /\ \A p \in InsideInsert : resultsMutex = p
    /\ \A k \in DOMAIN qa.writes : qa.writes[k] = 1
    /\ DOMAIN qa.writes = DOMAIN results
    /\ QueryAllReturned => DOMAIN qa.writes = providers

C23_Witness ==
    /\ \E p, q \in providers :
          /\ tasks[p].pc = "stored"
          /\ tasks[q].pc = "wantLock"
          /\ p \in DOMAIN results
          /\ q \notin DOMAIN results
    /\ resultsMutex # "free"

(* A task is inside provider.Query.                                        *)
InAdapterCall(p) == tasks[p].pc = "calling"

(* C24: QueryAll's tasks do not serialize their adapter calls: the result  *)
(* lock is never held by a task that is inside its adapter call, whatever  *)
(* the other tasks are doing a task can enter its call and a call that     *)
(* has its result can return, and a task that has its result to store      *)
(* gets to store it even when another task's call never finishes.          *)
C24_CallsNotSerialized ==
    /\ [](\A p \in ProviderNames : InAdapterCall(p) => resultsMutex # p)
    /\ [](\A p \in ProviderNames : tasks[p].pc = "start" => ENABLED TaskStart(p))
    /\ [](\A p \in ProviderNames : InAdapterCall(p) => ENABLED TaskAdapterReturn(p))
    /\ \A p \in ProviderNames :
          (tasks[p].pc = "wantLock") ~> (p \in DOMAIN results)

C24_Witness ==
    \E p, q \in providers :
        /\ InAdapterCall(q)
        /\ tasks[q].prep.sent
        /\ ~ctxCancelled
        /\ tasks[p].called
        /\ tasks[p].pc = "done"
        /\ p \in DOMAIN results

(* The provider has no default model: the registry does not know it or     *)
(* lists no model for it.                                                  *)
NoDefaultModel(p) == GetModelsForProvider(SupportedProviders, p) = <<>>

(* C25: in QueryAll a task whose provider has no default model never calls *)
(* the adapter and stores an entry holding only the provider name and the  *)
(* error, with empty model, empty response and zero elapsed time; every    *)
(* other task's entry has as Model the provider's first listed model.      *)
C25_LookupFailureEntry ==
    /\ \A p \in ProviderNames :
          NoDefaultModel(p) => ~tasks[p].called /\ ~tasks[p].prep.sent
    /\ \A p \in DOMAIN results :
          IF NoDefaultModel(p)
          THEN results[p] = ProviderResponse("", "", p, ErrNoModels, 0)
          ELSE results[p].Model = SupportedProviders[p][1]

C25_Witness ==
    /\ QueryAllReturned
    /\ DOMAIN results = {"anthropic", "google"}
    /\ NoDefaultModel("google")
    /\ results["google"].Error = ErrNoModels
    /\ results["anthropic"].Error = NoErr
    /\ results["anthropic"].Model = "claude-3-7-sonnet-latest"

(***************************************************************************)
(* Properties of an adapter's Query.                                       *)
(***************************************************************************)
(* The positions of the options of a kind, and of the custom parameters    *)
(* of a key.                                                               *)
Setters(options, kind) == {i \in 1..Len(options) : options[i].kind = kind}

ParamSetters(options, key) ==
    {i \in Setters(options, "WithCustomParam") : options[i].key = key}

Last(positions) == CHOOSE i \in positions : \A j \in positions : j <= i

(* The adapter got as far as composing its options.                        *)
Composed ==
    /\ ad.pc # "idle"
    /\ ~(ad.provider = "google" /\ googleClient = "nil")

(* C26: in the options an adapter composes, model, max tokens and          *)
(* temperature are each what the last option setting that field gave,      *)
(* a field no option sets keeps the adapter's default (max tokens 1000     *)
(* and temperature 0.7 for Deepseek and Anthropic), and the custom         *)
(* parameters hold every key given, each with the last value given for it. *)
C26_LastOptionWins ==
    Composed =>
        LET options == ad.options
            o == ad.prep.opts
            models == Setters(options, "WithModel")
            maxTokens == Setters(options, "WithMaxTokens")
            temperatures == Setters(options, "WithTemperature")
        IN  /\ o.Model = IF models = {} THEN "" ELSE options[Last(models)].str
            /\ o.MaxTokens =
                  IF maxTokens # {} THEN options[Last(maxTokens)].num
                  ELSE IF ad.provider \in {"deepseek", "anthropic"} THEN 1000
                  ELSE GoogleDefaultMaxTokens
            /\ o.Temperature =
                  IF temperatures # {} THEN options[Last(temperatures)].num ELSE 7
            /\ DOMAIN o.CustomParams =
                  {options[i].key : i \in Setters(options, "WithCustomParam")}
            /\ \A k \in DOMAIN o.CustomParams :
                  LET i == Last(ParamSetters(options, k))
                  IN  o.CustomParams[k] = [type |-> options[i].type,
                                           str |-> options[i].str,
                                           num |-> options[i].num]
            /\ ad.prep.sent =>
                  /\ ad.prep.req.Model = o.Model
                  /\ ad.prep.req.MaxTokens = o.MaxTokens
                  /\ ad.prep.req.Temperature = o.Temperature

C26_Witness ==
    /\ Composed
    /\ ad.pc = "returned"
    /\ ad.provider = "anthropic"
    /\ Len(ad.options) = 8
    /\ ad.prep.opts.Model = "model-b"
    /\ ad.prep.opts.MaxTokens = 60
    /\ ad.prep.opts.Temperature = 2
    /\ DOMAIN ad.prep.opts.CustomParams = {"system", "top_p"}
    /\ ad.prep.opts.CustomParams["system"].str = "be terse"

(* A Deepseek or Anthropic call has returned after a completed exchange:   *)
(* the request was answered and the body read.                             *)
ExchangeCompleted ==
    /\ ad.pc = "returned"
    /\ ad.provider \in {"deepseek", "anthropic"}
    /\ ad.exchange.transport = "ok"

(* The decoded body carries no choice or content item.                     *)
ZeroItems(body) == body \in {"noContent", "apiError"}

(* C27: for Deepseek and Anthropic the outcome of a completed exchange is  *)
(* decided in this order: a status other than 200 gives the backend error  *)
(* with the backend's type and message when the body parses to one, else   *)
(* with the status and raw body; a 200 with an undecodable body gives the  *)
(* parse error; a 200 with zero choices or content items gives the         *)
(* empty-response error; response text is returned in no other case.       *)
C27_OutcomeOrder ==
    ExchangeCompleted =>
        LET x == ad.exchange
        IN  /\ x.status # 200 =>
                  ad.out = Result("", IF x.body = "apiError" THEN ErrAPIType
                                                            ELSE ErrAPIStatus)
            /\ (x.status = 200 /\ x.body = "garbage") =>
                  ad.out = Result("", ErrParsing)
            /\ (x.status = 200 /\ ZeroItems(x.body)) =>
                  ad.out = Result("", ErrEmpty)
            /\ ad.out.err = NoErr =>
                  /\ x.status = 200
                  /\ x.body # "garbage"
                  /\ ~ZeroItems(x.body)
                  /\ ad.out.response = x.text
                  /\ ad.out.response = ResponseText(ad.provider)

C27_Witness ==
    /\ ExchangeCompleted
    /\ ad.provider = "deepseek"
    /\ ad.exchange.status = 500
    /\ ad.exchange.body = "garbage"
    /\ ad.out = Result("", ErrAPIStatus)

(* C28: a Deepseek request whose custom parameter system is a non-empty    *)
(* string carries the system-role message followed by the user message;    *)
(* when system is absent, empty or not a string the request carries the    *)
(* user message alone, and the parameter never makes the call fail: the    *)
(* request is sent exactly if a model is set.                              *)
C28_DeepseekSystemMessage ==
    (ad.pc # "idle" /\ ad.provider = "deepseek") =>
        LET options == ad.options
            systems == ParamSetters(options, "system")
            given   == /\ systems # {}
                       /\ options[Last(systems)].type = "string"
                       /\ options[Last(systems)].str # ""
            user    == [Role |-> "user", Content |-> "hello"]
        IN  /\ ad.prep.sent <=> ad.prep.opts.Model # ""
            /\ ad.prep.err \in {NoErr, ErrModelRequired}
            /\ ad.prep.sent =>
                  ad.prep.req.Messages =
                      IF given
                      THEN <<[Role |-> "system", Content |-> options[Last(systems)].str],
                             user>>
                      ELSE <<user>>

C28_Witness ==
    /\ ad.pc = "returned"
    /\ ad.provider = "deepseek"
    /\ ad.prep.sent
    /\ ad.prep.req.Messages =
          <<[Role |-> "system", Content |-> "be brief"],
            [Role |-> "user", Content |-> "hello"]>>
    /\ ad.out.err = NoErr

(* A Deepseek call whose system parameter is not a string went through     *)
(* with the user message alone.                                            *)
C28_WitnessMistyped ==
    /\ ad.pc = "returned"
    /\ ad.provider = "deepseek"
    /\ ad.options = <<WithModel("model-a"), WithCustomParam("system", "int", "", 1)>>
    /\ ad.prep.req.Messages = <<[Role |-> "user", Content |-> "hello"]>>
    /\ ad.out.err = NoErr

(***************************************************************************)
(* The command line's single query and its detached history write.         *)
(***************************************************************************)
(* queryLLM took the single-query flow.                                    *)
CliSingleQuery == cli.pc \in {"ready", "querying", "returned", "exited"} /\ ~cli.all

(* C29: in the command line's single-query flow the History Store is never *)
(* closed while the history write of a successful query is pending, and    *)
(* the write is made before the command is over: when the process ends     *)
(* after a successful query with the logger opened, LogQuery has run for   *)
(* it, and it ran on an open store.                                        *)
C29_StoreOpenWhileWritePending ==
    CliSingleQuery =>
        /\ logTasks # {} => dbOpen
        /\ (cli.pc = "exited" /\ logger = "set" /\ CliAnswered) =>
              DOMAIN logAttempts # {}

(***************************************************************************)
(* Nil options.                                                            *)
(***************************************************************************)
RECURSIVE WithoutNil(_)
WithoutNil(options) ==
    IF options = <<>> THEN <<>>
    ELSE IF Head(options) = NilOption THEN WithoutNil(Tail(options))
    ELSE <<Head(options)>> \o WithoutNil(Tail(options))

(* C30: a nil option among the options of QueryWithTiming is skipped       *)
(* everywhere: the call never crashes, and its adapter call is the one     *)
(* the same options without the nil option make.                           *)
C30_NilOptionSkipped ==
    /\ qwt.pc # "panicked"
    /\ (qwt.adapterCalled /\ HasNilOption(qwt.options)) =>
          qwt.prep = AdapterPrepare(qwt.provider, googleClient, qwt.prompt,
                                    <<WithModel(qwt.modelName)>> \o WithoutNil(qwt.options))

====
